---- MODULE Spec2Model ----
(***************************************************************************)
(* Arduino LVGL import/export of rttgnck/studio-cpp: the line-based C++    *)
(* parser (LVGLCppParser), the importer (convertWidget,                    *)
(* createProjectFromArduino) and the code generator (LVGLCodeGenerator,    *)
(* generateScreenFunction, exportToArduino).                               *)
(*                                                                         *)
(* Text is a sequence of lexemes (strings); white space is not modelled    *)
(* (every regular expression of the parser allows \s* where the generator  *)
(* writes a blank, and every line is trimmed).  A source line is a         *)
(* sequence of statements; a statement is                                  *)
(*     lhs = lv_<w>_<f>( args ;      [lhs |-> , w |-> , f |-> , args |-> ] *)
(* where args is the text between the call's opening parenthesis and the   *)
(* terminating semicolon (so it normally ends with ")"), lhs = "" when     *)
(* there is no assignment, and f = << >> for text that is no lv_ call.     *)
(* f is itself a text, as the generator composes a call name from parts    *)
(* (lv_obj_set_style_ followed by the style property).                     *)
(* A JavaScript number is kept as its decimal text, tagged "number".       *)
(***************************************************************************)
EXTENDS Integers, Sequences, FiniteSets, TLC

VARIABLES
    pc,         \* position in the import -> export -> re-import pipeline
    lines,      \* LVGLCppParser.lines of the file being parsed
    i,          \* loop index of parseWidgets (0-based, as in the source)
    widgets,    \* LVGLCppParser.widgets: every widget object, in creation order
    widgetMap,  \* parseWidgets' widgetMap: variable name -> index into widgets
    mapKeys,    \* insertion order of widgetMap's keys
    project,    \* the project JSON (its pages) handed to the exporter
    runs,       \* results of the exportToArduino calls made so far on project
    exportsLeft,\* how many more exportToArduino calls the scenario makes
    disk,       \* output directory: file name -> code last written
    reparsed,   \* per definitions file of the last export: the widgets parse returns
    scan,       \* the parser instance reading an exported unit: code, loop index, state
    batch,      \* parseArduinoLVGLProject: its files, loop position and results
    dir,        \* the project directory scanArduinoProject walks
    info,       \* scanArduinoProject: loop position, files, mainFiles, hasLVGL
    result,     \* what importArduinoLVGLProject returned
    kt,         \* a kind and a structured type taken through the kind tables
    state,      \* the observable state of the dialog store (export or import dialog)
    tasks       \* the dialog's handlers waiting at an await, and what has ended

vars == <<pc, lines, i, widgets, widgetMap, mapKeys, project, runs, exportsLeft,
          disk, reparsed, scan, batch, dir, info, result, kt, state, tasks>>

\* the variables of the import -> export -> re-import pipeline
pipeline == <<pc, lines, i, widgets, widgetMap, mapKeys, project, runs, exportsLeft,
              disk, reparsed, scan>>

\* the variables of the entry points around it
around == <<batch, dir, info, result, kt, state, tasks>>

\* the variables of the two dialogs
dialogs == <<state, tasks>>

(***************************************************************************)
(* Bounds of the model.                                                    *)
(***************************************************************************)
MaxLines == 3
MaxRoots == 2

(***************************************************************************)
(* Text helpers.                                                           *)
(***************************************************************************)
Min(S) == CHOOSE x \in S : \A y \in S : x <= y

IndexOf(t, x) ==
    LET S == {k \in 1..Len(t) : t[k] = x} IN IF S = {} THEN 0 ELSE Min(S)

After(t, k) == SubSeq(t, k + 1, Len(t))

Before(t, k) == SubSeq(t, 1, k - 1)

\* the longest prefix of t holding no x  ([^x]+ of an unanchored pattern)
UpTo(t, x) == IF IndexOf(t, x) = 0 THEN t ELSE Before(t, IndexOf(t, x))

Includes(t, x) == IndexOf(t, x) # 0

Punct == {"(", ")", ",", "\"", "%", "&", "-", "*", "=", ";", "{", "}", "#"}

\* \w+ : one identifier-like lexeme
IsWord(x) == x # "" /\ x \notin Punct

\* \d+ : the digit runs that occur in the model's inputs
DigitRuns == {"0", "10", "35", "45", "50", "90", "100"}

\* 0x[0-9A-Fa-f]+
HexLiterals == {"0x001122", "0x00FFFF", "0xFF0000"}

\* lv_font_\w+
FontNames == {"lv_font_montserrat_24"}

NULL == << >>
UNDEFINED == << >>
NaN == << >>

Num(t) == [ty |-> "number", s |-> t]
Str(t) == [ty |-> "string", s |-> t]

EmptyMap == [k \in {} |-> << >>]

MapSet(m, k, v) == [x \in DOMAIN m \cup {k} |-> IF x = k THEN v ELSE m[x]]

MapHas(m, k) == k \in DOMAIN m

\* JavaScript parseInt on a trimmed text: optional sign, then leading digits
parseInt(t) ==
    IF Len(t) >= 1 /\ t[1] \in DigitRuns THEN <<t[1]>>
    ELSE IF Len(t) >= 2 /\ t[1] = "-" /\ t[2] \in DigitRuns THEN <<"-", t[2]>>
    ELSE NaN

\* parseInt(..) || 0
parseIntOr0(t) == IF parseInt(t) = NaN THEN <<"0">> ELSE parseInt(t)

(***************************************************************************)
(* Statements and lines.                                                   *)
(***************************************************************************)
Call(w, f, args) == [lhs |-> "", w |-> w, f |-> f, args |-> args]
Assign(lhs, w, f, args) == [lhs |-> lhs, w |-> w, f |-> f, args |-> args]
Raw(t) == [lhs |-> "", w |-> "", f |-> << >>, args |-> t]

\* String.match without the g flag finds the leftmost match: of the statements
\* S of a line that match, the first (0 when none does)
Leftmost(S) == IF S = {} THEN 0 ELSE Min(S)

\* "(\w+),\s*" right after the opening parenthesis
HeadIs(s) == Len(s.args) >= 2 /\ IsWord(s.args[1]) /\ s.args[2] = ","

(***************************************************************************)
(* LVGLCppParser                                                           *)
(***************************************************************************)
\* /(\w+)\s*=\s*lv_(\w+)_create\(([^)]+)\)\s*;/
createMatch(s) ==
    /\ s.lhs # "" /\ s.w # "" /\ s.f = <<"create">>
    /\ IndexOf(s.args, ")") > 1
    /\ IndexOf(s.args, ")") = Len(s.args)

\* a faulty variant of the widget literal: the screen name "parent" is kept as a
\* parent name (C1 must tell it from the real one)
NewWidget_KeepsParent(s, lineIndex) ==
    [ type |-> <<"lv_", s.w>>,
      variableName |-> s.lhs,
      parent |-> UpTo(s.args, ")"),
      properties |-> EmptyMap,
      styles |-> EmptyMap,
      position |-> [x |-> <<"0">>, y |-> <<"0">>],
      size |-> [width |-> Str(<<"auto">>), height |-> Str(<<"auto">>)],
      children |-> << >>,
      sourceLineStart |-> lineIndex,
      sourceLineEnd |-> lineIndex ]

NewWidget(s, lineIndex) ==
    LET parentName == UpTo(s.args, ")") IN
    [ type |-> <<"lv_", s.w>>,
      variableName |-> s.lhs,
      parent |-> IF parentName = <<"parent">> THEN NULL ELSE parentName,
      properties |-> EmptyMap,
      styles |-> EmptyMap,
      position |-> [x |-> <<"0">>, y |-> <<"0">>],
      size |-> [width |-> Str(<<"auto">>), height |-> Str(<<"auto">>)],
      children |-> << >>,
      sourceLineStart |-> lineIndex,
      sourceLineEnd |-> lineIndex ]

\* widgetMap.get(name): index of the widget object, 0 for undefined
MapGet(st, name) == IF name \in DOMAIN st.widgetMap THEN st.widgetMap[name] ELSE 0

\* "if (widget) { <widget becomes wd>; widget.sourceLineEnd = lineIndex }" for
\* widget = the object at index k, k = 0 standing for undefined
\* a faulty variant of the write-back: the fact is applied, sourceLineEnd is
\* left alone (C19 must tell it from the real one)
Put_KeepsEnd(st, k, lineIndex, wd) ==
    IF k = 0 THEN st
    ELSE [st EXCEPT !.widgets[k] = wd]

Put(st, k, lineIndex, wd) ==
    IF k = 0 THEN st
    ELSE [st EXCEPT !.widgets[k] = [wd EXCEPT !.sourceLineEnd = lineIndex]]

\* the object widgetMap.get(varName) returned, when it returned one
Obj(st, k) == st.widgets[k]

\* parseWidgets, the creation branch of the loop body
\* a faulty variant of the creation branch: an identifier already registered
\* keeps its first record (C27 must tell it from the real one)
parseCreate_KeepsFirst(st, line, lineIndex) ==
    LET c == Leftmost({k \in 1..Len(line) : createMatch(line[k])}) IN
    IF c = 0 THEN st
    ELSE LET varName == line[c].lhs IN
         [ widgets |-> Append(st.widgets, NewWidget(line[c], lineIndex)),
           widgetMap |-> IF varName \in DOMAIN st.widgetMap THEN st.widgetMap
                         ELSE MapSet(st.widgetMap, varName, Len(st.widgets) + 1),
           mapKeys |-> IF varName \in DOMAIN st.widgetMap THEN st.mapKeys
                       ELSE Append(st.mapKeys, varName) ]

parseCreate(st, line, lineIndex) ==
    LET c == Leftmost({k \in 1..Len(line) : createMatch(line[k])}) IN
    IF c = 0 THEN st
    ELSE LET varName == line[c].lhs IN
         [ widgets |-> Append(st.widgets, NewWidget(line[c], lineIndex)),
           widgetMap |-> MapSet(st.widgetMap, varName, Len(st.widgets) + 1),
           mapKeys |-> IF varName \in DOMAIN st.widgetMap THEN st.mapKeys
                       ELSE Append(st.mapKeys, varName) ]

\* /LV_PCT\((\d+)\)/ : position of the match in the text, 0 for none
PctMatch(t) ==
    LET S == {k \in 1..Len(t) : /\ k + 3 <= Len(t)
                                /\ t[k] = "LV_PCT" /\ t[k + 1] = "("
                                /\ t[k + 2] \in DigitRuns /\ t[k + 3] = ")"}
    IN IF S = {} THEN 0 ELSE Min(S)

parseSize(sizeStr) ==
    IF Includes(sizeStr, "LV_PCT") /\ PctMatch(sizeStr) # 0
    THEN Str(<<sizeStr[PctMatch(sizeStr) + 2], "%">>)
    ELSE IF parseInt(sizeStr) = NaN THEN Str(sizeStr) ELSE Num(parseInt(sizeStr))

\* /lv_\w+_set_text\((\w+),\s*"([^"]+)"\s*\)/
textMatch(s) ==
    /\ s.w # "" /\ s.f = <<"set_text">> /\ HeadIs(s)
    /\ Len(s.args) >= 3 /\ s.args[3] = "\""
    /\ LET rest == After(s.args, 3)
           q == IndexOf(rest, "\"")
       IN q > 1 /\ Len(rest) > q /\ rest[q + 1] = ")"

\* /lv_obj_set_size\((\w+),\s*([^,]+),\s*([^)]+)\)/
\* /lv_\w+_set_range\((\w+),\s*([^,]+),\s*([^)]+)\)/
TwoArgs(s) ==
    /\ HeadIs(s)
    /\ LET rest == After(s.args, 2)
           c == IndexOf(rest, ",")
       IN c > 1 /\ IndexOf(After(rest, c), ")") > 1

Arg2(s) == UpTo(After(s.args, 2), ",")

Arg3(s) ==
    LET rest == After(s.args, 2) IN UpTo(After(rest, IndexOf(rest, ",")), ")")

sizeMatch(s) == s.w = "obj" /\ s.f = <<"set_size">> /\ TwoArgs(s)

rangeMatch(s) == s.w # "" /\ s.f = <<"set_range">> /\ TwoArgs(s)

\* /lv_\w+_set_value\((\w+),\s*([^)]+)\)/
valueMatch(s) ==
    /\ s.w # "" /\ s.f = <<"set_value">> /\ HeadIs(s)
    /\ IndexOf(After(s.args, 2), ")") > 1

\* "const widget = widgetMap.get(varName); if (widget) { widget.properties.set(..) }"
\* a faulty variant of the property assignment: the first value of a key stays
\* (C2 must tell it from the real one)
SetProperty_KeepFirst(st, varName, lineIndex, key, value) ==
    IF MapGet(st, varName) = 0 THEN st
    ELSE IF MapHas(Obj(st, MapGet(st, varName)).properties, key) THEN st
    ELSE Put(st, MapGet(st, varName), lineIndex,
             [Obj(st, MapGet(st, varName)) EXCEPT !.properties = MapSet(@, key, value)])

SetProperty(st, varName, lineIndex, key, value) ==
    IF MapGet(st, varName) = 0 THEN st
    ELSE Put(st, MapGet(st, varName), lineIndex,
             [Obj(st, MapGet(st, varName)) EXCEPT !.properties = MapSet(@, key, value)])

\* if (textMatch) { ... }; m: the matching statement of the line, 0 for no match
TextBranch(st, line, m, lineIndex) ==
    IF m = 0 THEN st
    ELSE SetProperty(st, line[m].args[1], lineIndex, "text",
                     UpTo(After(line[m].args, 3), "\""))

\* if (sizeMatch) { ... }
SizeBranch(st, line, m, lineIndex) ==
    IF m = 0 \/ MapGet(st, line[m].args[1]) = 0 THEN st
    ELSE Put(st, MapGet(st, line[m].args[1]), lineIndex,
             [Obj(st, MapGet(st, line[m].args[1])) EXCEPT
                 !.size = [width |-> parseSize(Arg2(line[m])),
                           height |-> parseSize(Arg3(line[m]))]])

\* if (valueMatch) { ... }
ValueBranch(st, line, m, lineIndex) ==
    IF m = 0 THEN st
    ELSE SetProperty(st, line[m].args[1], lineIndex, "value",
                     UpTo(After(line[m].args, 2), ")"))

\* if (rangeMatch) { ... }
RangeBranch(st, line, m, lineIndex) ==
    IF m = 0 THEN st
    ELSE SetProperty(SetProperty(st, line[m].args[1], lineIndex, "range_min", Arg2(line[m])),
                     line[m].args[1], lineIndex, "range_max", Arg3(line[m]))

parsePropertySetters(st, line, lineIndex) ==
    RangeBranch(
        ValueBranch(
            SizeBranch(
                TextBranch(st, line,
                           Leftmost({k \in 1..Len(line) : textMatch(line[k])}), lineIndex),
                line, Leftmost({k \in 1..Len(line) : sizeMatch(line[k])}), lineIndex),
            line, Leftmost({k \in 1..Len(line) : valueMatch(line[k])}), lineIndex),
        line, Leftmost({k \in 1..Len(line) : rangeMatch(line[k])}), lineIndex)

\* /lv_obj_set_style_bg_color\((\w+),\s*lv_color_hex\((0x[0-9A-Fa-f]+)\)/
\* /lv_obj_set_style_text_color\((\w+),\s*lv_color_hex\((0x[0-9A-Fa-f]+)\)/
ColorArg(s) ==
    /\ HeadIs(s) /\ Len(s.args) >= 6
    /\ s.args[3] = "lv_color_hex" /\ s.args[4] = "("
    /\ s.args[5] \in HexLiterals /\ s.args[6] = ")"

bgColorMatch(s) == s.w = "obj" /\ s.f = <<"set_style_", "bg_color">> /\ ColorArg(s)

textColorMatch(s) == s.w = "obj" /\ s.f = <<"set_style_", "text_color">> /\ ColorArg(s)

\* /lv_obj_set_style_text_font\((\w+),\s*&(lv_font_\w+)/
fontMatch(s) ==
    /\ s.w = "obj" /\ s.f = <<"set_style_", "text_font">> /\ HeadIs(s)
    /\ Len(s.args) >= 4 /\ s.args[3] = "&" /\ s.args[4] \in FontNames

\* "([^,]+)" with nothing required after it: runs to the next comma or to the
\* end of the statement text, the semicolon included
OpenArg(s) == UpTo(After(s.args, 2) \o <<";">>, ",")

\* /lv_obj_set_style_radius\((\w+),\s*([^,]+)/
radiusMatch(s) == s.w = "obj" /\ s.f = <<"set_style_", "radius">> /\ HeadIs(s) /\ OpenArg(s) # << >>

\* /lv_obj_set_style_border_opa\((\w+),\s*([^,]+)/
borderOpaMatch(s) ==
    s.w = "obj" /\ s.f = <<"set_style_", "border_opa">> /\ HeadIs(s) /\ OpenArg(s) # << >>

\* "const widget = widgetMap.get(varName); if (widget) { widget.styles.set(..) }"
\* a faulty variant of the style assignment: the styles set before are dropped
\* (C18 must tell it from the real one)
SetStyle_Resets(st, varName, lineIndex, key, value) ==
    IF MapGet(st, varName) = 0 THEN st
    ELSE Put(st, MapGet(st, varName), lineIndex,
             [Obj(st, MapGet(st, varName)) EXCEPT !.styles = MapSet(EmptyMap, key, value)])

SetStyle(st, varName, lineIndex, key, value) ==
    IF MapGet(st, varName) = 0 THEN st
    ELSE Put(st, MapGet(st, varName), lineIndex,
             [Obj(st, MapGet(st, varName)) EXCEPT !.styles = MapSet(@, key, value)])

\* if (bgColorMatch) / if (textColorMatch): the colour is capture group 2
ColorBranch(st, line, m, lineIndex, key) ==
    IF m = 0 THEN st ELSE SetStyle(st, line[m].args[1], lineIndex, key, <<line[m].args[5]>>)

\* if (fontMatch) { ... }
FontBranch(st, line, m, lineIndex) ==
    IF m = 0 THEN st
    ELSE SetStyle(st, line[m].args[1], lineIndex, "text_font", <<line[m].args[4]>>)

\* if (radiusMatch) / if (borderOpaMatch)
OpenBranch(st, line, m, lineIndex, key) ==
    IF m = 0 THEN st ELSE SetStyle(st, line[m].args[1], lineIndex, key, OpenArg(line[m]))

parseStyleSetters(st, line, lineIndex) ==
    OpenBranch(
        OpenBranch(
            FontBranch(
                ColorBranch(
                    ColorBranch(st, line,
                                Leftmost({k \in 1..Len(line) : bgColorMatch(line[k])}),
                                lineIndex, "bg_color"),
                    line, Leftmost({k \in 1..Len(line) : textColorMatch(line[k])}),
                    lineIndex, "text_color"),
                line, Leftmost({k \in 1..Len(line) : fontMatch(line[k])}), lineIndex),
            line, Leftmost({k \in 1..Len(line) : radiusMatch(line[k])}), lineIndex, "radius"),
        line, Leftmost({k \in 1..Len(line) : borderOpaMatch(line[k])}), lineIndex,
        "border_opa")

\* /lv_obj_align\((\w+),\s*([^,]+),\s*([^,]+),\s*([^)]+)\)/
alignMatch(s) ==
    /\ s.w = "obj" /\ s.f = <<"align">> /\ HeadIs(s)
    /\ LET r1 == After(s.args, 2)
           r2 == After(r1, IndexOf(r1, ","))
       IN /\ IndexOf(r1, ",") > 1
          /\ IndexOf(r2, ",") > 1
          /\ IndexOf(After(r2, IndexOf(r2, ",")), ")") > 1

\* /lv_obj_center\((\w+)\)/
centerMatch(s) ==
    /\ s.w = "obj" /\ s.f = <<"center">>
    /\ Len(s.args) >= 2 /\ IsWord(s.args[1]) /\ s.args[2] = ")"

\* the text after the first comma of t
AfterComma(t) == After(t, IndexOf(t, ","))

AlignArg2(s) == UpTo(After(s.args, 2), ",")

AlignArg3(s) == UpTo(AfterComma(After(s.args, 2)), ",")

AlignArg4(s) == UpTo(AfterComma(AfterComma(After(s.args, 2))), ")")

\* if (alignMatch) { ... }
AlignBranch(st, line, m, lineIndex) ==
    IF m = 0 \/ MapGet(st, line[m].args[1]) = 0 THEN st
    ELSE Put(st, MapGet(st, line[m].args[1]), lineIndex,
             [Obj(st, MapGet(st, line[m].args[1])) EXCEPT
                 !.properties = MapSet(@, "align", AlignArg2(line[m])),
                 !.position = [x |-> parseIntOr0(AlignArg3(line[m])),
                               y |-> parseIntOr0(AlignArg4(line[m]))]])

\* if (centerMatch) { ... }
CenterBranch(st, line, m, lineIndex) ==
    IF m = 0 THEN st
    ELSE SetProperty(st, line[m].args[1], lineIndex, "align", <<"LV_ALIGN_CENTER">>)

parseLayoutFunctions(st, line, lineIndex) ==
    CenterBranch(
        AlignBranch(st, line, Leftmost({k \in 1..Len(line) : alignMatch(line[k])}), lineIndex),
        line, Leftmost({k \in 1..Len(line) : centerMatch(line[k])}), lineIndex)

\* a faulty variant of the loop body: every line, recognized or not, moves the
\* end of the widget made last (C15 must tell it from the real one)
ProcessLine_TouchesLast(st, line, lineIndex) ==
    LET done == parseLayoutFunctions(
                    parseStyleSetters(
                        parsePropertySetters(parseCreate(st, line, lineIndex),
                                             line, lineIndex),
                        line, lineIndex),
                    line, lineIndex)
    IN IF done.widgets = << >> THEN done
       ELSE Put(done, Len(done.widgets), lineIndex, done.widgets[Len(done.widgets)])

\* the body of parseWidgets' loop for line lineIndex
ProcessLine(st, line, lineIndex) ==
    parseLayoutFunctions(
        parseStyleSetters(
            parsePropertySetters(parseCreate(st, line, lineIndex), line, lineIndex),
            line, lineIndex),
        line, lineIndex)

\* buildHierarchy: widgetMap.values() in insertion order of the keys
RECURSIVE LinkFrom(_, _)
LinkFrom(st, k) ==
    IF k > Len(st.mapKeys) THEN st
    ELSE LET c == st.widgetMap[st.mapKeys[k]]
             wd == st.widgets[c]
             p == IF wd.parent # NULL /\ wd.parent # <<"parent">> /\ Len(wd.parent) = 1
                  THEN MapGet(st, wd.parent[1]) ELSE 0
         IN LinkFrom(IF p = 0 THEN st
                     ELSE [st EXCEPT !.widgets[p].children = Append(@, c)],
                     k + 1)

RECURSIVE LinkEarlier(_, _)
\* linking in a single pass: only a parent created before its child is found
LinkEarlier(st, k) ==
    IF k > Len(st.mapKeys) THEN st
    ELSE LET c == st.widgetMap[st.mapKeys[k]]
             wd == st.widgets[c]
             p == IF wd.parent # NULL /\ wd.parent # <<"parent">> /\ Len(wd.parent) = 1
                  THEN MapGet(st, wd.parent[1]) ELSE 0
         IN LinkEarlier(IF p = 0 \/ p > c THEN st
                        ELSE [st EXCEPT !.widgets[p].children = Append(@, c)],
                        k + 1)

\* a faulty variant of buildHierarchy: no second pass, forward references are
\* lost (C17 must tell it from the real one)
buildHierarchy_SinglePass(st) == LinkEarlier(st, 1)

buildHierarchy(st) == LinkFrom(st, 1)

ParserInit == [widgets |-> << >>, widgetMap |-> EmptyMap, mapKeys |-> << >>]

\* LVGLCppParser.parse as a function of the file's lines
RECURSIVE ScanFrom(_, _, _)
ScanFrom(st, ls, k) ==
    IF k > Len(ls) THEN st ELSE ScanFrom(ProcessLine(st, ls[k], k - 1), ls, k + 1)

parse(ls) == buildHierarchy(ScanFrom(ParserInit, ls, 1)).widgets

(***************************************************************************)
(* Importer: mapWidgetType, convertWidget, createProjectFromArduino        *)
(***************************************************************************)
mapWidgetType(lvglType) ==
    CASE lvglType = <<"lv_", "obj">> -> "LVGLContainerWidget"
      [] lvglType = <<"lv_", "label">> -> "LVGLLabelWidget"
      [] lvglType = <<"lv_", "btn">> -> "LVGLButtonWidget"
      [] lvglType = <<"lv_", "arc">> -> "LVGLArcWidget"
      [] lvglType = <<"lv_", "slider">> -> "LVGLSliderWidget"
      [] lvglType = <<"lv_", "bar">> -> "LVGLBarWidget"
      [] lvglType = <<"lv_", "checkbox">> -> "LVGLCheckboxWidget"
      [] lvglType = <<"lv_", "switch">> -> "LVGLSwitchWidget"
      [] lvglType = <<"lv_", "dropdown">> -> "LVGLDropdownWidget"
      [] lvglType = <<"lv_", "img">> -> "LVGLImageWidget"
      [] lvglType = <<"lv_", "textarea">> -> "LVGLTextareaWidget"
      [] lvglType = <<"lv_", "keyboard">> -> "LVGLKeyboardWidget"
      [] lvglType = <<"lv_", "chart">> -> "LVGLChartWidget"
      [] lvglType = <<"lv_", "table">> -> "LVGLTableWidget"
      [] lvglType = <<"lv_", "spinner">> -> "LVGLSpinnerWidget"
      [] lvglType = <<"lv_", "roller">> -> "LVGLRollerWidget"
      [] lvglType = <<"lv_", "meter">> -> "LVGLMeterWidget"
      [] OTHER -> "LVGLContainerWidget"

\* String.includes on an alignment keyword: the keywords that hold the substring
Holding(sub) ==
    CASE sub = "CENTER" -> {"LV_ALIGN_CENTER"}
      [] sub = "LEFT" -> {"LV_ALIGN_TOP_LEFT", "LV_ALIGN_LEFT_MID", "LV_ALIGN_BOTTOM_LEFT"}
      [] sub = "RIGHT" -> {"LV_ALIGN_TOP_RIGHT", "LV_ALIGN_RIGHT_MID", "LV_ALIGN_BOTTOM_RIGHT"}
      [] sub = "TOP" -> {"LV_ALIGN_TOP_LEFT", "LV_ALIGN_TOP_MID", "LV_ALIGN_TOP_RIGHT"}
      [] sub = "BOTTOM" -> {"LV_ALIGN_BOTTOM_LEFT", "LV_ALIGN_BOTTOM_MID", "LV_ALIGN_BOTTOM_RIGHT"}

HasSub(t, sub) == \E k \in 1..Len(t) : t[k] \in Holding(sub)

PropOr(wd, key) == IF MapHas(wd.properties, key) THEN wd.properties[key] ELSE UNDEFINED

\* typeof size === 'string' && size.includes('%') ? '%' : 'px'
UnitOf(size) == IF size.ty = "string" /\ Includes(size.s, "%") THEN "%" ELSE "px"

StyleEntry(wd, key, prop, pre) ==
    IF MapHas(wd.styles, key) THEN <<[prop |-> prop, value |-> pre \o wd.styles[key]]>>
    ELSE << >>

\* the definition object of convertWidget, as its entries in insertion order
StyleDefinition(wd) ==
    StyleEntry(wd, "bg_color", "bg_color", << >>)
    \o (IF MapHas(wd.styles, "bg_color")
        THEN <<[prop |-> "bg_opa", value |-> <<"LV_OPA_COVER">>]>> ELSE << >>)
    \o StyleEntry(wd, "text_color", "text_color", << >>)
    \o StyleEntry(wd, "text_font", "text_font", <<"&">>)
    \o StyleEntry(wd, "radius", "radius", << >>)
    \o StyleEntry(wd, "border_opa", "border_opa", << >>)

RECURSIVE convertWidget(_, _)
RECURSIVE ConvertAll(_, _, _)

\* ws: the parser's widget objects; k: the index of the object to convert
convertWidget(ws, k) ==
    LET widget == ws[k]
        hasAlign == MapHas(widget.properties, "align")
        align == PropOr(widget, "align")
    IN
    [ type |-> mapWidgetType(widget.type),
      identifier |-> widget.variableName,
      left |-> widget.position.x,
      top |-> widget.position.y,
      leftUnit |-> IF ~hasAlign THEN "px"
                   ELSE IF HasSub(align, "CENTER") THEN "center"
                   ELSE IF HasSub(align, "LEFT") THEN "left"
                   ELSE IF HasSub(align, "RIGHT") THEN "right"
                   ELSE "px",
      topUnit |-> IF ~hasAlign THEN "px"
                  ELSE IF HasSub(align, "TOP") THEN "top"
                  ELSE IF HasSub(align, "BOTTOM") THEN "bottom"
                  ELSE IF HasSub(align, "CENTER") THEN "center"
                  ELSE "px",
      width |-> widget.size.width,
      height |-> widget.size.height,
      widthUnit |-> UnitOf(widget.size.width),
      heightUnit |-> UnitOf(widget.size.height),
      text |-> PropOr(widget, "text"),
      value |-> PropOr(widget, "value"),
      rangeMin |-> PropOr(widget, "range_min"),
      rangeMax |-> PropOr(widget, "range_max"),
      localStyles |-> StyleDefinition(widget),
      children |-> ConvertAll(ws, widget.children, 1) ]

ConvertAll(ws, ks, n) ==
    IF n > Len(ks) THEN << >>
    ELSE <<convertWidget(ws, ks[n])>> \o ConvertAll(ws, ks, n + 1)

RECURSIVE TopLevel_Unresolved(_, _)
\* a variant of the filter: a widget whose parent names no widget of the file
\* is converted as a top-level widget too (C26 must tell it from the real one)
TopLevel_Unresolved(ws, k) ==
    IF k > Len(ws) THEN << >>
    ELSE (IF \/ ws[k].parent = NULL
             \/ \A j \in 1..Len(ws) : <<ws[j].variableName>> # ws[k].parent
          THEN <<k>> ELSE << >>)
         \o TopLevel_Unresolved(ws, k + 1)

\* the indices of the widgets of a parsed file that become top-level widgets
RECURSIVE TopLevel(_, _)
TopLevel(ws, k) ==
    IF k > Len(ws) THEN << >>
    ELSE (IF ws[k].parent = NULL \/ ws[k].parent = <<"parent">> THEN <<k>> ELSE << >>)
         \o TopLevel(ws, k + 1)

\* path.basename(fileName, path.extname(fileName)) || "main_screen"
\* a faulty variant of the naming of a page: the extension takes part in the
\* name (C30 must tell it from the real one)
PageName_PerExtension(fileName) ==
    IF fileName.ext = ".ino" THEN "sketch" ELSE fileName.base

PageName(fileName) == IF fileName.base = "" THEN "main_screen" ELSE fileName.base

RECURSIVE createProjectFromArduino(_)
\* parsedFiles: sequence of [fileName, widgets]; the result: projectJson.pages
createProjectFromArduino(parsedFiles) ==
    IF parsedFiles = << >> THEN << >>
    ELSE LET parsedFile == Head(parsedFiles) IN
         <<[ name |-> PageName(parsedFile.fileName),
             widgets |-> ConvertAll(parsedFile.widgets, TopLevel(parsedFile.widgets, 1), 1) ]>>
         \o createProjectFromArduino(Tail(parsedFiles))

(***************************************************************************)
(* LVGLCodeGenerator                                                       *)
(***************************************************************************)
\* a faulty variant of the kind table: every kind falls to the default
\* (C3 must tell it from the real one)
\* `mapping` is a plain object literal, so mapping[key] also finds the members
\* it inherits from Object.prototype; each is given by its string conversion,
\* which is what the template `lv_${widgetType}_create` makes of it
ObjectPrototype ==
    [constructor |-> "function Object() { [native code] }",
     toString |-> "function toString() { [native code] }",
     valueOf |-> "function valueOf() { [native code] }",
     hasOwnProperty |-> "function hasOwnProperty() { [native code] }",
     __proto__ |-> "[object Object]"]

getWidgetTypeFromEEZ_Default(eezType) == "obj"

getWidgetTypeFromEEZ(eezType) ==
    CASE eezType = "LVGLContainerWidget" -> "obj"
      [] eezType = "LVGLLabelWidget" -> "label"
      [] eezType = "LVGLButtonWidget" -> "btn"
      [] eezType = "LVGLArcWidget" -> "arc"
      [] eezType = "LVGLSliderWidget" -> "slider"
      [] eezType = "LVGLBarWidget" -> "bar"
      [] eezType = "LVGLCheckboxWidget" -> "checkbox"
      [] eezType = "LVGLSwitchWidget" -> "switch"
      [] eezType = "LVGLDropdownWidget" -> "dropdown"
      [] eezType = "LVGLImageWidget" -> "img"
      [] eezType = "LVGLTextareaWidget" -> "textarea"
      [] eezType = "LVGLKeyboardWidget" -> "keyboard"
      [] eezType = "LVGLChartWidget" -> "chart"
      [] eezType = "LVGLTableWidget" -> "table"
      [] eezType = "LVGLSpinnerWidget" -> "spinner"
      [] eezType = "LVGLRollerWidget" -> "roller"
      [] eezType = "LVGLMeterWidget" -> "meter"
      [] eezType \in DOMAIN ObjectPrototype -> ObjectPrototype[eezType]
      [] OTHER -> "obj"

convertSize(size, unit) ==
    IF unit = "%" THEN <<"LV_PCT", "(">> \o size.s \o <<")">> ELSE size.s

getAlignment(leftUnit, topUnit) ==
    CASE leftUnit = "center" /\ topUnit = "center" -> "LV_ALIGN_CENTER"
      [] leftUnit = "left" /\ topUnit = "top" -> "LV_ALIGN_TOP_LEFT"
      [] leftUnit = "center" /\ topUnit = "top" -> "LV_ALIGN_TOP_MID"
      [] leftUnit = "right" /\ topUnit = "top" -> "LV_ALIGN_TOP_RIGHT"
      [] leftUnit = "left" /\ topUnit = "center" -> "LV_ALIGN_LEFT_MID"
      [] leftUnit = "right" /\ topUnit = "center" -> "LV_ALIGN_RIGHT_MID"
      [] leftUnit = "left" /\ topUnit = "bottom" -> "LV_ALIGN_BOTTOM_LEFT"
      [] leftUnit = "center" /\ topUnit = "bottom" -> "LV_ALIGN_BOTTOM_MID"
      [] leftUnit = "right" /\ topUnit = "bottom" -> "LV_ALIGN_BOTTOM_RIGHT"
      [] OTHER -> "LV_ALIGN_TOP_LEFT"

\* JavaScript truthiness of a size value (undefined, "", 0 are falsy)
Truthy(v) == v.s # << >> /\ ~(v.ty = "number" /\ v.s = <<"0">>)

\* widget.left || 0
Or0(n) == IF n = UNDEFINED THEN <<"0">> ELSE n

\* generateStyles: one statement per entry of definition.MAIN.DEFAULT
RECURSIVE generateStyles(_, _)
generateStyles(varName, definition) ==
    IF definition = << >> THEN << >>
    ELSE << <<Call("obj", <<"set_style_", Head(definition).prop>>,
                   <<varName, ",">> \o Head(definition).value \o <<",", "0", ")">>)>> >>
         \o generateStyles(varName, Tail(definition))

\* widget.identifier || `obj_${Math.random().toString(36).substr(2, 9)}`:
\* the outcomes of Math.random are the names the stream rnd holds
VarNameOf(widget, rnd) == IF widget.identifier = "" THEN Head(rnd) ELSE widget.identifier

\* a faulty variant of the widget's own lines: creation under the screen and a
\* blank line, whatever the widget holds (C20 must tell it from the real one)
OwnLines_Bare(widget, varName, parentVar) ==
    << <<Assign(varName, getWidgetTypeFromEEZ(widget.type), <<"create">>,
                <<"parent", ")">>)>>,
       << >> >>

\* the lines generateWidget adds for the widget itself (children excluded)
OwnLines(widget, varName, parentVar) ==
    LET widgetType == getWidgetTypeFromEEZ(widget.type)
        x == Or0(widget.left)
        y == Or0(widget.top)
        align == getAlignment(widget.leftUnit, widget.topUnit)
    IN
    << <<Assign(varName, widgetType, <<"create">>, <<parentVar, ")">>)>> >>
    \o (IF Truthy(widget.width) /\ Truthy(widget.height)
        THEN << <<Call("obj", <<"set_size">>,
                       <<varName, ",">> \o convertSize(widget.width, widget.widthUnit)
                       \o <<",">> \o convertSize(widget.height, widget.heightUnit)
                       \o <<")">>)>> >>
        ELSE << >>)
    \o (IF widget.leftUnit # "" /\ widget.leftUnit # "px"
        THEN IF align = "LV_ALIGN_CENTER" /\ x = <<"0">> /\ y = <<"0">>
             THEN << <<Call("obj", <<"center">>, <<varName, ")">>)>> >>
             ELSE << <<Call("obj", <<"align">>,
                            <<varName, ",", align, ",">> \o x \o <<",">> \o y \o <<")">>)>> >>
        ELSE << <<Call("obj", <<"set_pos">>,
                       <<varName, ",">> \o x \o <<",">> \o y \o <<")">>)>> >>)
    \o (IF widget.type = "LVGLLabelWidget" /\ widget.text # << >>
        THEN << <<Call("label", <<"set_text">>,
                       <<varName, ",", "\"">> \o widget.text \o <<"\"", ")">>)>> >>
        ELSE << >>)
    \o (IF widget.rangeMin # UNDEFINED /\ widget.rangeMax # UNDEFINED
        THEN << <<Call(widgetType, <<"set_range">>,
                       <<varName, ",">> \o widget.rangeMin \o <<",">> \o widget.rangeMax
                       \o <<")">>)>> >>
        ELSE << >>)
    \o (IF widget.value # UNDEFINED
        THEN << <<Call(widgetType, <<"set_value">>,
                       <<varName, ",">> \o widget.value \o <<")">>)>> >>
        ELSE << >>)
    \o generateStyles(varName, widget.localStyles)
    \o << << >> >>

RECURSIVE generateWidget(_, _, _)
RECURSIVE GenerateChildren(_, _, _, _)

\* g = [code, rnd]: the generator's code buffer and the pending outcomes of
\* Math.random.  The result's code is what generateWidget returns
\* (this.code.join("\n"): the whole buffer).
generateWidget(g, widget, parentVar) ==
    LET varName == VarNameOf(widget, g.rnd)
        g1 == [ code |-> g.code \o OwnLines(widget, varName, parentVar),
                rnd |-> IF widget.identifier = "" THEN Tail(g.rnd) ELSE g.rnd ]
    IN GenerateChildren(g1, widget.children, 1, varName)

GenerateChildren(g, children, n, varName) ==
    IF n > Len(children) THEN g
    ELSE GenerateChildren(generateWidget(g, children[n], varName), children, n + 1, varName)

\* the loop of generateScreenFunction over page.widgets: out collects what is
\* pushed to lines, g is the one generator shared by all roots
RECURSIVE GenerateRoots(_, _, _, _)
GenerateRoots(out, g, roots, n) ==
    IF n > Len(roots) THEN [lines |-> out, rnd |-> g.rnd]
    ELSE LET g1 == generateWidget(g, roots[n], "parent")
         IN GenerateRoots(out \o g1.code, g1, roots, n + 1)

\* result: [lines, rnd]
generateScreenFunction(page, functionName, rnd) ==
    LET head == << <<Raw(<<"void">> \o functionName
                         \o <<"(", "lv_obj_t", "*", "parent", ")", "{">>)>>,
                   <<Call("obj", <<"clean">>, <<"parent", ")">>)>>,
                   <<Call("obj", <<"set_size">>,
                          <<"parent", ",", "LV_PCT", "(", "100", ")", ",",
                            "LV_PCT", "(", "100", ")", ")">>)>>,
                   << >> >>
        body == GenerateRoots(head, [code |-> << >>, rnd |-> rnd], page.widgets, 1)
    IN [lines |-> body.lines \o << <<Raw(<<"}">>)>>, << >> >>, rnd |-> body.rnd]

(***************************************************************************)
(* exportToArduino                                                         *)
(***************************************************************************)
RECURSIVE Identifiers(_)
\* collectIdentifiers over a list of widgets: the non-empty identifiers, pre-order
Identifiers(ws) ==
    IF ws = << >> THEN << >>
    ELSE (IF Head(ws).identifier # "" THEN <<Head(ws).identifier>> ELSE << >>)
         \o Identifiers(Head(ws).children) \o Identifiers(Tail(ws))

RECURSIVE PageIdentifiers(_)
PageIdentifiers(pages) ==
    IF pages = << >> THEN << >>
    ELSE Identifiers(Head(pages).widgets) \o PageIdentifiers(Tail(pages))

RECURSIVE Distinct(_, _)
\* a Set<string> filled in this order: first occurrences only
Distinct(seen, t) ==
    IF t = << >> THEN << >>
    ELSE IF Head(t) \in seen THEN Distinct(seen, Tail(t))
    ELSE <<Head(t)>> \o Distinct(seen \cup {Head(t)}, Tail(t))

ExternLines(ids) == [k \in 1..Len(ids) |-> <<Raw(<<"extern", "lv_obj_t", "*", ids[k], ";">>)>>]

GlobalLines(ids) ==
    [k \in 1..Len(ids) |-> <<Raw(<<"lv_obj_t", "*", ids[k], "=", "NULL", ";">>)>>]

FunctionName(page) == <<page.name, "_create">>

PrototypeLines(pages) ==
    [k \in 1..Len(pages) |->
        <<Raw(<<"void">> \o FunctionName(pages[k])
              \o <<"(", "lv_obj_t", "*", "parent", ")", ";">>)>>]

HeaderFile(pages) ==
    [ fileName |-> <<"ui.h">>,
      code |-> << <<Raw(<<"#pragma", "once">>)>>,
                  <<Raw(<<"#include", "\"", "lvgl/lvgl.h", "\"">>)>>,
                  << >>,
                  <<Raw(<<"//", "Global widget variables">>)>> >>
               \o ExternLines(Distinct({}, PageIdentifiers(pages)))
               \o << << >> >>
               \o PrototypeLines(pages) ]

RECURSIVE PageFiles(_, _)
\* the implementation files, page by page; rnd: the outcomes of Math.random
PageFiles(pages, rnd) ==
    IF pages = << >> THEN << >>
    ELSE LET page == Head(pages)
             screenCode == generateScreenFunction(page, FunctionName(page), rnd)
         IN <<[ fileName |-> <<page.name, ".cpp">>,
                code |-> << <<Raw(<<"#include", "\"", "ui.h", "\"">>)>>, << >> >>
                         \o GlobalLines(Identifiers(page.widgets))
                         \o << << >> >>
                         \o screenCode.lines ]>>
            \o PageFiles(Tail(pages), screenCode.rnd)

GeneratedFiles(pages, rnd) == <<HeaderFile(pages)>> \o PageFiles(pages, rnd)

RECURSIVE WriteFiles_SkipsFirst(_, _, _)
\* a faulty variant of the write loop: the first file is never written
\* (C12 must tell it from the real one)
WriteFiles_SkipsFirst(d, files, n) ==
    IF n <= 1 THEN d
    ELSE MapSet(WriteFiles_SkipsFirst(d, files, n - 1), files[n].fileName, files[n].code)

RECURSIVE WriteFiles(_, _, _)
\* fs.writeFileSync for the first n files, in order
WriteFiles(d, files, n) ==
    IF n = 0 THEN d
    ELSE MapSet(WriteFiles(d, files, n - 1), files[n].fileName, files[n].code)

RECURSIVE CountMissing(_)
\* the widgets without identifier: one Math.random call each
CountMissing(ws) ==
    IF ws = << >> THEN 0
    ELSE (IF Head(ws).identifier = "" THEN 1 ELSE 0)
         + CountMissing(Head(ws).children) + CountMissing(Tail(ws))

RECURSIVE PagesMissing(_)
PagesMissing(pages) ==
    IF pages = << >> THEN 0
    ELSE CountMissing(Head(pages).widgets) + PagesMissing(Tail(pages))

\* what `obj_${Math.random().toString(36).substr(2, 9)}` may evaluate to
RandomNames == {"obj_k3j9x2m1q", "obj_p0q8z7w5t"}

\* failAt = 0: every write succeeds; failAt = n: the n-th writeFileSync throws
ExportResult(files, failAt) ==
    IF failAt = 0 THEN [success |-> TRUE, files |-> files, error |-> << >>]
    ELSE [success |-> FALSE, files |-> << >>, error |-> <<"EACCES">>]

(***************************************************************************)
(* The inputs.                                                             *)
(***************************************************************************)
Create(id, kind, parentArg) == <<Assign(id, kind, <<"create">>, <<parentArg, ")">>)>>

SetText(id, text) == <<Call("label", <<"set_text">>, <<id, ",", "\"", text, "\"", ")">>)>>

SetSize(id, width, height) ==
    <<Call("obj", <<"set_size">>, <<id, ",">> \o width \o <<",">> \o height \o <<")">>)>>

SetStyle3(id, prop, value) ==
    <<Call("obj", <<"set_style_", prop>>, <<id, ",">> \o value \o <<",", "0", ")">>)>>

Pct(n) == <<"LV_PCT", "(", n, ")">>

ColorHex(h) == <<"lv_color_hex", "(", h, ")">>

Declared(id) == <<Raw(<<"lv_obj_t", "*", id, "=", "NULL", ";">>)>>

\* creation calls: roots, a child, an unresolved parent, a forward reference,
\* a second creation of the same identifier, two statements on one line
TreeLines ==
    { Create("a", "obj", "parent"),
      Create("a", "label", "parent"),
      Create("b", "label", "a"),
      Create("b", "btn", "parent"),
      Create("b", "obj", "ghost"),
      Create("a", "obj", "b"),
      SetText("b", "hi"),
      Declared("a"),
      Create("a", "obj", "parent") \o Create("b", "label", "a") }

\* one widget and its property and size setters, two of them on one line
PropLines ==
    { Create("a", "label", "parent"),
      Create("a", "btn", "parent"),
      SetText("a", "hi"),
      SetText("a", "yo"),
      SetSize("a", <<"90">>, <<"45">>),
      SetSize("a", Pct("100"), Pct("50")),
      SetText("a", "hi") \o SetSize("a", <<"90">>, <<"45">>) }

\* one widget and its style setters
StyleLines ==
    { Create("a", "label", "parent"),
      SetStyle3("a", "bg_color", ColorHex("0x001122")),
      SetStyle3("a", "bg_color", ColorHex("0xFF0000")),
      SetStyle3("a", "text_color", ColorHex("0x00FFFF")),
      SetStyle3("a", "text_font", <<"&", "lv_font_montserrat_24">>),
      SetStyle3("a", "radius", <<"10">>),
      SetStyle3("a", "border_opa", <<"LV_OPA_0">>) }

SetValue(id, v) ==
    <<Call("slider", <<"set_value">>, <<id, ",", v, ",", "LV_ANIM_OFF", ")">>)>>

SetRange(id, lo, hi) == <<Call("slider", <<"set_range">>, <<id, ",", lo, ",", hi, ")">>)>>

Align(id, al, x, y) == <<Call("obj", <<"align">>, <<id, ",", al, ",", x, ",", y, ")">>)>>

Center(id) == <<Call("obj", <<"center">>, <<id, ")">>)>>

\* a statement of the surrounding application logic
Delay == <<Raw(<<"delay", "(", "5", ")", ";">>)>>

\* one widget, its value, range and layout calls, and a line of other code
LayoutLines ==
    { Create("a", "slider", "parent"),
      SetValue("a", "5"),
      SetRange("a", "0", "10"),
      Align("a", "LV_ALIGN_TOP_LEFT", "10", "20"),
      Center("a"),
      Delay }

\* a widget that names itself as its parent, a widget whose identifier is the
\* word `parent`, and widgets created under `parent` and under the widget a
NestLines ==
    { Create("a", "obj", "a"),
      Create("a", "btn", "parent"),
      Create("b", "label", "a"),
      Create("parent", "obj", "parent"),
      Create("b", "label", "parent") }

\* the files of up to MaxLines lines of L, no line written twice
FilesOver(L) ==
    UNION { {f \in [1..n -> L] : \A j \in 1..n : \A k \in 1..n : f[j] = f[k] => j = k}
            : n \in 1..MaxLines }

SourceFiles ==
    FilesOver(TreeLines) \cup FilesOver(PropLines) \cup FilesOver(StyleLines)
        \cup FilesOver(LayoutLines) \cup FilesOver(NestLines)

\* the file the pipeline imports
SrcFile == [base |-> "main", ext |-> ".cpp"]

\* a widget of a project tree, as the editor holds it
EezWidget(type, identifier, text, children) ==
    [ type |-> type, identifier |-> identifier,
      left |-> <<"0">>, top |-> <<"0">>, leftUnit |-> "px", topUnit |-> "px",
      width |-> Num(<<"90">>), height |-> Num(<<"45">>),
      widthUnit |-> "px", heightUnit |-> "px",
      text |-> text, value |-> UNDEFINED, rangeMin |-> UNDEFINED, rangeMax |-> UNDEFINED,
      localStyles |-> << >>, children |-> children ]

EezLeaves ==
    { EezWidget("LVGLContainerWidget", "a", UNDEFINED, << >>),
      EezWidget("LVGLContainerWidget", "", UNDEFINED, << >>),
      EezWidget("LVGLLabelWidget", "b", <<"hi">>, << >>) }

\* widgets with no child or one child
EezTrees ==
    EezLeaves \cup {[w EXCEPT !.children = <<c>>] :
                        w \in EezLeaves, c \in {v \in EezLeaves : v.identifier # "a"}}

\* projects of one page with up to MaxRoots top-level widgets
EezProjects ==
    {<<[name |-> "main", widgets |-> roots]>> :
        roots \in UNION {[1..n -> EezTrees] : n \in 0..MaxRoots}}

(***************************************************************************)
(* The state machine.                                                      *)
(***************************************************************************)
NoProject == << >>

NoScan == [code |-> << >>, i |-> 0, st |-> ParserInit]

NoBatch == [files |-> << >>, k |-> 0, results |-> << >>]

NoInfo == [k |-> 0, aborted |-> FALSE, files |-> << >>, mainFiles |-> << >>,
           hasLVGL |-> FALSE]

NoDir == [readable |-> TRUE, entries |-> << >>]

NoResult == [returned |-> FALSE, raised |-> FALSE, success |-> FALSE, project |-> << >>,
             error |-> ""]

NoKinds == [kind |-> "", eezType |-> "", forward |-> "", back |-> "", reverse |-> ""]

\* no dialog is open
NoDialog == << >>

\* nothing has been handed to the entry points around the pipeline
AroundIdle ==
    /\ batch = NoBatch
    /\ dir = NoDir
    /\ info = NoInfo
    /\ result = NoResult
    /\ kt = NoKinds
    /\ state = NoDialog /\ tasks = NoDialog

\* the pipeline has not been started
PipelineIdle ==
    /\ lines = << >>
    /\ i = 0
    /\ widgets = << >>
    /\ widgetMap = EmptyMap
    /\ mapKeys = << >>
    /\ project = NoProject
    /\ runs = << >>
    /\ exportsLeft = 0
    /\ disk = EmptyMap
    /\ reparsed = << >>
    /\ scan = NoScan

Init ==
    /\ pc = "parse"
    /\ lines \in SourceFiles
    /\ i = 0
    /\ widgets = << >>
    /\ widgetMap = EmptyMap
    /\ mapKeys = << >>
    /\ project = NoProject
    /\ runs = << >>
    /\ exportsLeft = 1
    /\ disk = EmptyMap
    /\ reparsed = << >>
    /\ scan = NoScan
    /\ AroundIdle

ParserState == [widgets |-> widgets, widgetMap |-> widgetMap, mapKeys |-> mapKeys]

\* one iteration of the loop of parseWidgets
ParseLine ==
    /\ pc = "parse"
    /\ i < Len(lines)
    /\ LET st == ProcessLine(ParserState, lines[i + 1], i) IN
         /\ widgets' = st.widgets
         /\ widgetMap' = st.widgetMap
         /\ mapKeys' = st.mapKeys
    /\ i' = i + 1
    /\ UNCHANGED <<pc, lines, project, runs, exportsLeft, disk, reparsed, scan>>
    /\ UNCHANGED around

\* the end of parseWidgets: buildHierarchy, and parse returns
BuildHierarchy ==
    /\ pc = "parse"
    /\ i = Len(lines)
    /\ widgets' = buildHierarchy(ParserState).widgets
    /\ pc' = "parsed"
    /\ UNCHANGED <<lines, i, widgetMap, mapKeys, project, runs, exportsLeft, disk, reparsed,
                   scan>>
    /\ UNCHANGED around

\* importArduinoLVGLProject after the parse: a file without widgets is skipped
\* by parseArduinoLVGLProject, and no project is made from no parsed file
Import ==
    /\ pc = "parsed"
    /\ IF widgets = << >>
       THEN pc' = "nothing" /\ UNCHANGED project
       ELSE /\ project' = createProjectFromArduino(
                              <<[fileName |-> SrcFile, widgets |-> widgets]>>)
            /\ pc' = "project"
    /\ UNCHANGED <<lines, i, widgets, widgetMap, mapKeys, runs, exportsLeft, disk, reparsed,
                   scan>>
    /\ UNCHANGED around

ExportToArduino ==
    /\ pc = "project"
    /\ exportsLeft > 0
    /\ \E rnd \in [1..PagesMissing(project) -> RandomNames] :
         LET files == GeneratedFiles(project, rnd) IN
         \E failAt \in 0..Len(files) :
            /\ runs' = Append(runs, ExportResult(files, failAt))
            /\ disk' = WriteFiles(disk, files, IF failAt = 0 THEN Len(files) ELSE failAt - 1)
    /\ exportsLeft' = exportsLeft - 1
    /\ UNCHANGED <<pc, lines, i, widgets, widgetMap, mapKeys, project, reparsed, scan>>
    /\ UNCHANGED around

LastRun == runs[Len(runs)]

\* a definitions unit of the last export is read back
Reparse ==
    /\ pc = "project"
    /\ runs # << >>
    /\ LastRun.success
    /\ Len(reparsed) < Len(project)
    /\ scan' = [code |-> LastRun.files[Len(reparsed) + 2].code, i |-> 0, st |-> ParserInit]
    /\ pc' = "reparse"
    /\ UNCHANGED <<lines, i, widgets, widgetMap, mapKeys, project, runs, exportsLeft, disk,
                   reparsed>>
    /\ UNCHANGED around

\* one iteration of the loop of parseWidgets on the exported unit
ReparseLine ==
    /\ pc = "reparse"
    /\ scan.i < Len(scan.code)
    /\ scan' = [scan EXCEPT !.i = @ + 1,
                            !.st = ProcessLine(scan.st, scan.code[scan.i + 1], scan.i)]
    /\ UNCHANGED <<pc, lines, i, widgets, widgetMap, mapKeys, project, runs, exportsLeft,
                   disk, reparsed>>
    /\ UNCHANGED around

\* buildHierarchy on the exported unit, and parse returns its widgets
ReparseEnd ==
    /\ pc = "reparse"
    /\ scan.i = Len(scan.code)
    /\ reparsed' = Append(reparsed, buildHierarchy(scan.st).widgets)
    /\ pc' = IF Len(reparsed) + 1 < Len(project) THEN "project" ELSE "done"
    /\ scan' = NoScan
    /\ UNCHANGED <<lines, i, widgets, widgetMap, mapKeys, project, runs, exportsLeft, disk>>
    /\ UNCHANGED around

Next ==
    \/ ParseLine \/ BuildHierarchy \/ Import \/ ExportToArduino
    \/ Reparse \/ ReparseLine \/ ReparseEnd

Spec == Init /\ [][Next]_vars

\* the exporter on project trees as the editor hands them over, run twice
InitGen ==
    /\ pc = "project"
    /\ lines = << >>
    /\ i = 0
    /\ widgets = << >>
    /\ widgetMap = EmptyMap
    /\ mapKeys = << >>
    /\ project \in EezProjects
    /\ runs = << >>
    /\ exportsLeft = 2
    /\ disk = EmptyMap
    /\ reparsed = << >>
    /\ scan = NoScan
    /\ AroundIdle

NextGen == ExportToArduino

SpecGen == InitGen /\ [][NextGen]_vars

(***************************************************************************)
(* parseArduinoLVGLProject                                                 *)
(***************************************************************************)
\* the content of a file as a string, and a content that is no string
\* (content.split raises a TypeError on it)
Text(ls) == [ty |-> "string", lines |-> ls]

NotText == [ty |-> "undefined", lines |-> << >>]

\* a faulty variant of the loop body: a file is kept whatever it holds
\* (C11 must tell it from the real one)
BatchStep_KeepsAll(results, file) ==
    IF file.content.ty # "string" THEN results
    ELSE Append(results, [fileName |-> file.fileName, widgets |-> parse(file.content.lines)])

\* the body of the for loop: parse in a try, push when there is a widget
BatchStep(results, file) ==
    IF file.content.ty # "string" THEN results
    ELSE IF Len(parse(file.content.lines)) > 0
         THEN Append(results, [fileName |-> file.fileName,
                               widgets |-> parse(file.content.lines)])
         ELSE results

MaxFiles == 3

FileNames == {[base |-> "main", ext |-> ".cpp"], [base |-> "menu", ext |-> ".cpp"]}

FileContents ==
    { Text(<<Create("a", "obj", "parent")>>),
      Text(<<Create("a", "label", "parent"), SetText("a", "hi")>>),
      Text(<<Declared("a")>>),
      NotText }

BatchInputs ==
    UNION {[1..n -> [fileName : FileNames, content : FileContents]] : n \in 0..MaxFiles}

InitBatch ==
    /\ pc = "batch"
    /\ PipelineIdle
    /\ batch \in {[files |-> fs, k |-> 0, results |-> << >>] : fs \in BatchInputs}
    /\ dir = NoDir
    /\ info = NoInfo
    /\ result = NoResult
    /\ kt = NoKinds
    /\ state = NoDialog /\ tasks = NoDialog

\* one iteration of the loop of parseArduinoLVGLProject
ParseFile ==
    /\ pc = "batch"
    /\ batch.k < Len(batch.files)
    /\ batch' = [batch EXCEPT !.k = @ + 1,
                              !.results = BatchStep(@, batch.files[batch.k + 1])]
    /\ UNCHANGED <<pipeline, dir, info, result, kt, dialogs>>

\* parseArduinoLVGLProject returns results
BatchReturn ==
    /\ pc = "batch"
    /\ batch.k = Len(batch.files)
    /\ pc' = "batched"
    /\ UNCHANGED <<lines, i, widgets, widgetMap, mapKeys, project, runs, exportsLeft,
                   disk, reparsed, scan, around>>

NextBatch == ParseFile \/ BatchReturn

SpecBatch == InitBatch /\ [][NextBatch]_vars

(***************************************************************************)
(* scanArduinoProject and importArduinoLVGLProject                         *)
(***************************************************************************)
\* content.includes('lv_obj') || content.includes('lvgl')
ContainsLVGL(content) ==
    \E n \in 1..Len(content.lines) : \E k \in 1..Len(content.lines[n]) :
        LET s == content.lines[n][k] IN
        \/ s.f # << >> /\ s.w = "obj"
        \/ \E j \in 1..Len(s.args) : s.args[j] \in {"lv_obj_t", "lvgl/lvgl.h"}

\* the body of the for loop of scanDir on the entry at index idx; a statSync or
\* readFileSync that throws leaves the loop for the catch of scanDir
ScanStep(inf, entry, idx) ==
    IF entry.statFails THEN [inf EXCEPT !.aborted = TRUE]
    ELSE IF entry.name.ext \notin {".cpp", ".c", ".ino", ".h", ".hpp"} THEN inf
    ELSE IF entry.readFails
         THEN [inf EXCEPT !.files = Append(@, idx), !.aborted = TRUE]
    ELSE IF ContainsLVGL(entry.content)
         THEN [inf EXCEPT !.files = Append(@, idx),
                          !.hasLVGL = TRUE,
                          !.mainFiles = IF entry.name.ext \in {".cpp", ".ino"}
                                        THEN Append(@, idx) ELSE @]
    ELSE [inf EXCEPT !.files = Append(@, idx)]

RECURSIVE ParseAll(_, _, _)
\* parseArduinoLVGLProject on the entries paths[1..n] of the directory
ParseAll(entries, paths, n) ==
    IF n = 0 THEN << >>
    ELSE BatchStep(ParseAll(entries, paths, n - 1),
                   [fileName |-> entries[paths[n]].name,
                    content |-> entries[paths[n]].content])

Failure(msg) ==
    [returned |-> TRUE, raised |-> FALSE, success |-> FALSE, project |-> << >>,
     error |-> msg]

\* a faulty variant of the entry point: a read error escapes to the caller
\* (C13 must tell it from the real one)
ImportResult_Throws(inf, entries) ==
    LET filesToParse == IF Len(inf.mainFiles) > 0 THEN inf.mainFiles ELSE inf.files IN
    IF ~inf.hasLVGL THEN Failure("No LVGL code found in the project")
    ELSE IF \E k \in 1..Len(filesToParse) : entries[filesToParse[k]].readFails
         THEN [NoResult EXCEPT !.raised = TRUE]
    ELSE IF ParseAll(entries, filesToParse, Len(filesToParse)) = << >>
         THEN Failure("Could not parse any LVGL widgets from the files")
    ELSE [returned |-> TRUE, raised |-> FALSE, success |-> TRUE, error |-> "",
          project |-> createProjectFromArduino(
                          ParseAll(entries, filesToParse, Len(filesToParse)))]

\* importArduinoLVGLProject after the scan; every throw inside the try is
\* turned into a result by the catch
ImportResult(inf, entries) ==
    LET filesToParse == IF Len(inf.mainFiles) > 0 THEN inf.mainFiles ELSE inf.files IN
    IF ~inf.hasLVGL THEN Failure("No LVGL code found in the project")
    ELSE IF \E k \in 1..Len(filesToParse) : entries[filesToParse[k]].readFails
         THEN Failure("EACCES: permission denied, open")
    ELSE IF ParseAll(entries, filesToParse, Len(filesToParse)) = << >>
         THEN Failure("Could not parse any LVGL widgets from the files")
    ELSE [returned |-> TRUE, raised |-> FALSE, success |-> TRUE, error |-> "",
          project |-> createProjectFromArduino(
                          ParseAll(entries, filesToParse, Len(filesToParse)))]

MaxEntries == 2

\* directory entries: source files and one other file; an entry may fail in
\* statSync or in readFileSync
DirEntries ==
    [ name : {[base |-> "main", ext |-> ".cpp"], [base |-> "ui", ext |-> ".h"]},
      statFails : {FALSE}, readFails : BOOLEAN,
      content : {Text(<<Create("a", "obj", "parent")>>),
                 Text(<<Create("a", "label", "parent")>>),
                 Text(<<Declared("a")>>)} ]
    \cup
    [ name : {[base |-> "main", ext |-> ".cpp"], [base |-> "notes", ext |-> ".txt"]},
      statFails : BOOLEAN, readFails : {FALSE},
      content : {Text(<<Declared("a")>>)} ]

InitImport ==
    /\ pc = "scan"
    /\ PipelineIdle
    /\ batch = NoBatch
    /\ dir \in [readable : BOOLEAN,
                entries : UNION {[1..n -> DirEntries] : n \in 0..MaxEntries}]
    /\ \A a, b \in 1..Len(dir.entries) :
          dir.entries[a].name = dir.entries[b].name => a = b
    /\ info = NoInfo
    /\ result = NoResult
    /\ kt = NoKinds
    /\ state = NoDialog /\ tasks = NoDialog

\* one iteration of the loop of scanDir
ScanEntry ==
    /\ pc = "scan"
    /\ dir.readable /\ ~info.aborted
    /\ info.k < Len(dir.entries)
    /\ info' = [ScanStep(info, dir.entries[info.k + 1], info.k + 1) EXCEPT !.k = @ + 1]
    /\ UNCHANGED <<pipeline, batch, dir, result, kt, dialogs>>

\* scanDir ends: the loop is done, or readdirSync, statSync or readFileSync
\* threw and the catch logged it; scanArduinoProject returns
ScanReturn ==
    /\ pc = "scan"
    /\ ~dir.readable \/ info.aborted \/ info.k = Len(dir.entries)
    /\ pc' = "scanned"
    /\ UNCHANGED <<lines, i, widgets, widgetMap, mapKeys, project, runs, exportsLeft,
                   disk, reparsed, scan, around>>

\* importArduinoLVGLProject returns; the caller exports a project it got
ImportReturn ==
    /\ pc = "scanned"
    /\ result' = ImportResult(info, dir.entries)
    /\ IF result'.success
       THEN pc' = "project" /\ project' = result'.project /\ exportsLeft' = 1
       ELSE pc' = "imported" /\ UNCHANGED <<project, exportsLeft>>
    /\ UNCHANGED <<lines, i, widgets, widgetMap, mapKeys, runs, disk, reparsed, scan,
                   batch, dir, info, kt, dialogs>>

NextImport == ScanEntry \/ ScanReturn \/ ImportReturn \/ ExportToArduino

SpecImport == InitImport /\ [][NextImport]_vars

(***************************************************************************)
(* exportToArduino on projects of several screens                          *)
(***************************************************************************)
MaxPages == 2

\* pages as createProjectFromArduino names them (several files may share a
\* base name), holding no widget or one
PageProjects ==
    UNION {[1..n -> [name : {"main", "menu"},
                     widgets : {<< >>} \cup {<<w>> : w \in EezLeaves}]]
           : n \in 0..MaxPages}

InitPages ==
    /\ pc = "project"
    /\ lines = << >>
    /\ i = 0
    /\ widgets = << >>
    /\ widgetMap = EmptyMap
    /\ mapKeys = << >>
    /\ project \in PageProjects
    /\ runs = << >>
    /\ exportsLeft = 1
    /\ disk = EmptyMap
    /\ reparsed = << >>
    /\ scan = NoScan
    /\ AroundIdle

SpecPages == InitPages /\ [][ExportToArduino]_vars

(***************************************************************************)
(* Vocabulary of the properties.                                           *)
(***************************************************************************)
\* a creation call as written in the source, whether or not the parser sees it
IsCreationCall(s) == s.f = <<"create">> /\ s.lhs # ""

\* where the file has creation calls for id: <<line, statement>> positions
CreationCallsFor(id) ==
    {p \in (1..Len(lines)) \X (1..2) :
        /\ p[2] <= Len(lines[p[1]])
        /\ IsCreationCall(lines[p[1]][p[2]])
        /\ lines[p[1]][p[2]].lhs = id}

\* the identifier the leftmost creation call of a line binds ("" for none)
CreatedId(line) ==
    LET S == {k \in 1..Len(line) : IsCreationCall(line[k])}
    IN IF S = {} THEN "" ELSE line[Min(S)].lhs

Max(S) == CHOOSE x \in S : \A y \in S : x >= y

\* the last line up to line n that creates id (0 for none)
LastCreation(id, n) ==
    LET S == {m \in 1..n : CreatedId(lines[m]) = id} IN IF S = {} THEN 0 ELSE Max(S)

\* the first line after line n that creates id again (Len(lines) + 1 for none)
NextCreation(id, n) ==
    LET S == {m \in (n + 1)..Len(lines) : CreatedId(lines[m]) = id}
    IN IF S = {} THEN Len(lines) + 1 ELSE Min(S)

\* the widget object made by creation line n: the n-th creation of the file
ObjIndex(n) == Cardinality({m \in 1..n : CreatedId(lines[m]) # ""})

\* what a setter statement says, read off the statement as written
SetterFacts ==
    { [stmt |-> SetText(id, "hi")[1], id |-> id, key |-> "text",
       value |-> <<Str(<<"hi">>)>>] : id \in {"a", "b"} }
    \cup
    { [stmt |-> SetText("a", "yo")[1], id |-> "a", key |-> "text",
       value |-> <<Str(<<"yo">>)>>],
      [stmt |-> SetSize("a", <<"90">>, <<"45">>)[1], id |-> "a", key |-> "size",
       value |-> <<Num(<<"90">>), Num(<<"45">>)>>],
      [stmt |-> SetStyle3("a", "bg_color", ColorHex("0x001122"))[1], id |-> "a",
       key |-> "bg_color", value |-> <<Str(<<"0x001122">>)>>],
      [stmt |-> SetStyle3("a", "bg_color", ColorHex("0xFF0000"))[1], id |-> "a",
       key |-> "bg_color", value |-> <<Str(<<"0xFF0000">>)>>],
      [stmt |-> SetStyle3("a", "text_color", ColorHex("0x00FFFF"))[1], id |-> "a",
       key |-> "text_color", value |-> <<Str(<<"0x00FFFF">>)>>],
      [stmt |-> SetStyle3("a", "text_font", <<"&", "lv_font_montserrat_24">>)[1], id |-> "a",
       key |-> "text_font", value |-> <<Str(<<"lv_font_montserrat_24">>)>>],
      [stmt |-> SetStyle3("a", "radius", <<"10">>)[1], id |-> "a",
       key |-> "radius", value |-> <<Str(<<"10">>)>>],
      [stmt |-> SetStyle3("a", "border_opa", <<"LV_OPA_0">>)[1], id |-> "a",
       key |-> "border_opa", value |-> <<Str(<<"LV_OPA_0">>)>>] }

\* what a widget record holds under a key (<< >> when the key is not set)
Observe(wd, key) ==
    CASE key = "size" -> <<wd.size.width, wd.size.height>>
      [] key = "text" -> IF MapHas(wd.properties, key) THEN <<Str(wd.properties[key])>>
                         ELSE << >>
      [] OTHER -> IF MapHas(wd.styles, key) THEN <<Str(wd.styles[key])>> ELSE << >>

\* the fact of line n, if line n is a single setter statement of the table
FactsOf(n) == {f \in SetterFacts : lines[n] = <<f.stmt>>}

\* the key a setter statement is written for ("" for any other statement)
WrittenKey(s) ==
    CASE s.f = <<"set_text">> -> "text"
      [] s.f = <<"set_size">> -> "size"
      [] Len(s.f) = 2 /\ s.f[1] = "set_style_" -> s.f[2]
      [] OTHER -> ""

\* line m is a setter statement for key of id, whatever its value
SetsKey(m, id, key) ==
    \E k \in 1..Len(lines[m]) :
        /\ WrittenKey(lines[m][k]) = key
        /\ Len(lines[m][k].args) > 0
        /\ lines[m][k].args[1] = id

\* no later line sets the same key of the same object
LastSetter(n, f) ==
    \A m \in (n + 1)..(NextCreation(f.id, n) - 1) : ~SetsKey(m, f.id, f.key)

RECURSIVE TreeView(_, _, _)
\* kinds, identifiers, texts and nesting of the widgets ks[n..] of ws
TreeView(ws, ks, n) ==
    IF n > Len(ks) THEN << >>
    ELSE <<[ kind |-> ws[ks[n]].type,
             identifier |-> ws[ks[n]].variableName,
             text |-> PropOr(ws[ks[n]], "text"),
             children |-> TreeView(ws, ws[ks[n]].children, 1) ]>>
         \o TreeView(ws, ks, n + 1)

Forest(ws) == TreeView(ws, TopLevel(ws, 1), 1)

\* one container root with one label child that carries a text
TwoLevel(ws) ==
    LET roots == TopLevel(ws, 1) IN
    /\ Len(roots) = 1
    /\ ws[roots[1]].type = <<"lv_", "obj">>
    /\ Len(ws[roots[1]].children) = 1
    /\ LET c == ws[ws[roots[1]].children[1]] IN
         /\ c.type = <<"lv_", "label">>
         /\ MapHas(c.properties, "text")
         /\ c.children = << >>

(***************************************************************************)
(* C1.  A file that has the line  id = lv_<kind>_create(parent);  and no   *)
(* other creation call for id parses to exactly one widget for id, of type *)
(* lv_<kind>, with variableName id and parent null.                        *)
(***************************************************************************)
RootCreationLine(n) ==
    /\ Len(lines[n]) = 1
    /\ IsCreationCall(lines[n][1])
    /\ lines[n][1].args = <<"parent", ")">>
    /\ CreationCallsFor(lines[n][1].lhs) = {<<n, 1>>}

C1_SingleCreation ==
    pc # "parse" =>
        \A n \in 1..Len(lines) :
            RootCreationLine(n) =>
                LET S == {j \in 1..Len(widgets) :
                             widgets[j].variableName = lines[n][1].lhs}
                IN /\ Cardinality(S) = 1
                   /\ \A j \in S : /\ widgets[j].type = <<"lv_", lines[n][1].w>>
                                   /\ widgets[j].parent = NULL

C1_Witness ==
    /\ pc = "parsed"
    /\ Len(widgets) >= 2
    /\ \E n \in 1..Len(lines) : RootCreationLine(n)

(***************************************************************************)
(* C2.  A recognized text, integer-size or style setter line whose subject *)
(* was created on the same or an earlier line leaves the widget with the   *)
(* mapped key set to the literal token of the line; of several lines that  *)
(* set the same key of the widget, the last one decides.                   *)
(***************************************************************************)
C2_SetterApplied ==
    pc # "parse" =>
        \A n \in 1..Len(lines) : \A f \in FactsOf(n) :
            (LastCreation(f.id, n) > 0 /\ LastSetter(n, f)) =>
                Observe(widgets[ObjIndex(LastCreation(f.id, n))], f.key) = f.value

C2_Witness ==
    /\ pc = "parsed"
    /\ \E n \in 1..Len(lines) : \E m \in 1..Len(lines) :
         \E f \in FactsOf(n) : \E g \in FactsOf(m) :
            /\ n < m /\ f.id = g.id /\ f.key = g.key /\ f.value # g.value
            /\ LastCreation(f.id, n) > 0
            /\ LastCreation(f.id, n) = LastCreation(f.id, m)

(***************************************************************************)
(* C3.  Round trip of a two-level tree: when the imported file is one      *)
(* container root with one label child carrying a text, parsing the        *)
(* definitions unit exportToArduino wrote gives the same kinds,            *)
(* identifiers, text and nesting.                                          *)
(***************************************************************************)
C3_TwoLevelRoundTrip ==
    (pc = "done" /\ TwoLevel(widgets)) => Forest(reparsed[1]) = Forest(widgets)

C3_Witness == pc = "done" /\ TwoLevel(widgets) /\ TwoLevel(reparsed[1])

\* the creation statements of generated code, in order
RECURSIVE Creations(_)
Creations(code) ==
    IF code = << >> THEN << >>
    ELSE SelectSeq(Head(code), IsCreationCall) \o Creations(Tail(code))

\* how many widgets a forest of the project has
RECURSIVE TreeSize(_)
TreeSize(ws) ==
    IF ws = << >> THEN 0
    ELSE 1 + TreeSize(Head(ws).children) + TreeSize(Tail(ws))

\* the widgets of ws reachable from its top-level widgets
RECURSIVE Below(_, _, _)
Below(ws, ks, n) ==
    IF n > Len(ks) THEN {}
    ELSE {ks[n]} \cup Below(ws, ws[ks[n]].children, 1) \cup Below(ws, ks, n + 1)

InTree(ws) == Below(ws, TopLevel(ws, 1), 1)

(***************************************************************************)
(* C4.  A size written LV_PCT(n) is a percentage in both directions, for   *)
(* the width and for the height: import stores n with the percent marker,  *)
(* export writes LV_PCT(n) again, and the re-import stores the same value. *)
(***************************************************************************)
PctSizeLine(n) == lines[n] = SetSize("a", Pct("100"), Pct("50"))

PctSize == [width |-> Str(<<"100", "%">>), height |-> Str(<<"50", "%">>)]

C4_PercentBothWays ==
    \A n \in 1..Len(lines) :
        (/\ PctSizeLine(n)
         /\ LastCreation("a", n) > 0
         /\ \A m \in (n + 1)..(NextCreation("a", n) - 1) : ~SetsKey(m, "a", "size")) =>
            LET k == ObjIndex(LastCreation("a", n)) IN
            /\ pc # "parse" => widgets[k].size = PctSize
            /\ (pc = "done" /\ k \in InTree(widgets)) =>
                 /\ \E l \in 1..Len(LastRun.files[2].code) :
                        LastRun.files[2].code[l] = lines[n]
                 /\ \E r \in 1..Len(reparsed[1]) :
                        /\ reparsed[1][r].variableName = "a"
                        /\ reparsed[1][r].size = PctSize

(***************************************************************************)
(* C5.  Style round trip: every style attribute (bg_color, text_color,     *)
(* text_font, radius, border_opa) an imported widget carries is on the     *)
(* widget with the same value after convert, export and parse again.       *)
(***************************************************************************)
C5_StyleRoundTrip ==
    pc = "done" =>
        \A k \in InTree(widgets) : \A key \in DOMAIN widgets[k].styles :
            \E r \in 1..Len(reparsed[1]) :
                /\ reparsed[1][r].variableName = widgets[k].variableName
                /\ MapHas(reparsed[1][r].styles, key)
                /\ reparsed[1][r].styles[key] = widgets[k].styles[key]

(***************************************************************************)
(* C6.  A widget whose creation call names a parent that no creation call  *)
(* of the file binds is a top-level widget of the page that                *)
(* createProjectFromArduino builds.                                        *)
(***************************************************************************)
UnresolvedParent(wd) ==
    /\ wd.parent # NULL
    /\ \A j \in 1..Len(widgets) : widgets[j].variableName # wd.parent[1]

C6_UnresolvedParentIsTopLevel ==
    pc \in {"project", "reparse", "done"} =>
        \A k \in 1..Len(widgets) :
            UnresolvedParent(widgets[k]) =>
                \E r \in 1..Len(project[1].widgets) :
                    project[1].widgets[r].identifier = widgets[k].variableName

(***************************************************************************)
(* C7.  The widgets parse returns hold at most one entry per identifier: a *)
(* second creation call for an identifier overwrites the kind of the entry *)
(* and adds none.                                                          *)
(***************************************************************************)
C7_OneEntryPerIdentifier ==
    pc # "parse" =>
        \A j \in 1..Len(widgets) : \A k \in 1..Len(widgets) :
            widgets[j].variableName = widgets[k].variableName => j = k

(***************************************************************************)
(* C8.  In a generated screen function every widget of the screen's tree   *)
(* has exactly one creation statement, whatever the number of top-level    *)
(* widgets.                                                                *)
(***************************************************************************)
C8_OneCreationPerWidget ==
    \A n \in 1..Len(runs) :
        runs[n].success =>
            Len(Creations(runs[n].files[2].code)) = TreeSize(project[1].widgets)

(***************************************************************************)
(* C9.  A widget without identifier is rejected or flagged when code is    *)
(* generated: no creation statement binds a synthesized variable name.     *)
(***************************************************************************)
C9_NoSynthesizedName ==
    \A n \in 1..Len(runs) :
        runs[n].success =>
            \A l \in 1..Len(runs[n].files[2].code) :
                \A k \in 1..Len(runs[n].files[2].code[l]) :
                    runs[n].files[2].code[l][k].lhs \notin RandomNames

(***************************************************************************)
(* C10.  Generation is deterministic: two exports of the same project give *)
(* the same files.                                                         *)
(***************************************************************************)
C10_Deterministic ==
    (Len(runs) = 2 /\ runs[1].success /\ runs[2].success) =>
        runs[1].files = runs[2].files

(***************************************************************************)
(* C11.  parseArduinoLVGLProject returns exactly the files that have at    *)
(* least one widget, parsed, in the order of the input list; a file with   *)
(* no widget and a file whose parse raises are skipped, and the batch      *)
(* still returns.                                                          *)
(***************************************************************************)
\* the file is text and one of its lines has a creation call
FileHasCreation(file) ==
    /\ file.content.ty = "string"
    /\ \E n \in 1..Len(file.content.lines) : CreatedId(file.content.lines[n]) # ""

C11_BatchKeepsFilesWithWidgets ==
    pc = "batched" =>
        LET kept == SelectSeq(batch.files, FileHasCreation) IN
        /\ Len(batch.results) = Len(kept)
        /\ \A n \in 1..Len(kept) :
              /\ batch.results[n].fileName = kept[n].fileName
              /\ batch.results[n].widgets # << >>
              /\ batch.results[n].widgets = parse(kept[n].content.lines)

C11_Witness ==
    /\ pc = "batched"
    /\ Len(batch.files) = 3
    /\ batch.files[1].content = NotText
    /\ ~FileHasCreation(batch.files[2]) /\ batch.files[2].content # NotText
    /\ FileHasCreation(batch.files[3])
    /\ Len(batch.results) = 1

ToParse == IF Len(info.mainFiles) > 0 THEN info.mainFiles ELSE info.files

ImportMustFail ==
    \/ ~info.hasLVGL
    \/ \E k \in 1..Len(ToParse) : dir.entries[ToParse[k]].readFails
    \/ \A k \in 1..Len(ToParse) :
          ~FileHasCreation([content |-> dir.entries[ToParse[k]].content])

C13_NeverRaise ==
    /\ ~result.raised
    /\ pc \in {"imported", "project"} => result.returned
    /\ result.returned =>
          /\ result.success => result.error = "" /\ result.project # << >>
          /\ ~result.success => result.error # ""
          /\ ImportMustFail => ~result.success
    /\ \A r \in 1..Len(runs) :
          /\ runs[r].success => runs[r].error = << >>
          /\ ~runs[r].success => runs[r].error # << >>

C13_Witness ==
    /\ result.returned /\ result.success
    /\ Len(runs) = 1 /\ ~runs[1].success /\ runs[1].error # << >>
    /\ Len(dir.entries) = 2
    /\ dir.entries[2].readFails

(***************************************************************************)
(* C16.  During scanArduinoProject a directory entry that cannot be        *)
(* stat-ed or read does not abort its siblings: every other readable       *)
(* source file of the directory is listed in files and counted for         *)
(* hasLVGL and mainFiles.                                                  *)
(***************************************************************************)
ReadableSource(e) ==
    /\ ~e.statFails /\ ~e.readFails
    /\ e.name.ext \in {".cpp", ".c", ".ino", ".h", ".hpp"}

Listed(paths, idx) == \E k \in 1..Len(paths) : paths[k] = idx

C16_SiblingsStillScanned ==
    (pc # "scan" /\ dir.readable) =>
        \A idx \in 1..Len(dir.entries) :
            ReadableSource(dir.entries[idx]) =>
                /\ Listed(info.files, idx)
                /\ ContainsLVGL(dir.entries[idx].content) =>
                      /\ info.hasLVGL
                      /\ dir.entries[idx].name.ext \in {".cpp", ".ino"} =>
                            Listed(info.mainFiles, idx)

(***************************************************************************)
(* mapWidgetType and getWidgetTypeFromEEZ on their own: a source kind is   *)
(* mapped forward and back, and a structured type is mapped back.          *)
(***************************************************************************)
Catalogue ==
    {"obj", "label", "btn", "arc", "slider", "bar", "checkbox", "switch",
     "dropdown", "img", "textarea", "keyboard", "chart", "table", "spinner",
     "roller", "meter"}

CatalogueTypes ==
    {"LVGLContainerWidget", "LVGLLabelWidget", "LVGLButtonWidget", "LVGLArcWidget",
     "LVGLSliderWidget", "LVGLBarWidget", "LVGLCheckboxWidget", "LVGLSwitchWidget",
     "LVGLDropdownWidget", "LVGLImageWidget", "LVGLTextareaWidget",
     "LVGLKeyboardWidget", "LVGLChartWidget", "LVGLTableWidget",
     "LVGLSpinnerWidget", "LVGLRollerWidget", "LVGLMeterWidget"}

\* source kinds and structured types handed to the tables: the catalogue, some
\* names outside it, and for the types some names every object has a member for
SourceKinds == Catalogue \cup {"line", "canvas", "tabview"}

StructuredTypes ==
    CatalogueTypes \cup {"LVGLPanelWidget", "", "constructor", "toString", "valueOf"}

InitKinds ==
    /\ pc = "kinds"
    /\ PipelineIdle
    /\ batch = NoBatch /\ dir = NoDir /\ info = NoInfo /\ result = NoResult
    /\ state = NoDialog /\ tasks = NoDialog
    /\ kt \in [kind : SourceKinds, eezType : StructuredTypes,
               forward : {""}, back : {""}, reverse : {""}]

\* convertWidget asks mapWidgetType for the type of a parsed widget
MapForward ==
    /\ pc = "kinds"
    /\ kt' = [kt EXCEPT !.forward = mapWidgetType(<<"lv_", kt.kind>>)]
    /\ pc' = "forward"
    /\ UNCHANGED <<lines, i, widgets, widgetMap, mapKeys, project, runs, exportsLeft,
                   disk, reparsed, scan, batch, dir, info, result, dialogs>>

\* generateWidget asks getWidgetTypeFromEEZ for the kind of the converted widget
MapBack ==
    /\ pc = "forward"
    /\ kt' = [kt EXCEPT !.back = getWidgetTypeFromEEZ(kt.forward)]
    /\ pc' = "back"
    /\ UNCHANGED <<lines, i, widgets, widgetMap, mapKeys, project, runs, exportsLeft,
                   disk, reparsed, scan, batch, dir, info, result, dialogs>>

\* generateWidget asks getWidgetTypeFromEEZ for the kind of a widget of a project
MapReverse ==
    /\ pc = "back"
    /\ kt' = [kt EXCEPT !.reverse = getWidgetTypeFromEEZ(kt.eezType)]
    /\ pc' = "reversed"
    /\ UNCHANGED <<lines, i, widgets, widgetMap, mapKeys, project, runs, exportsLeft,
                   disk, reparsed, scan, batch, dir, info, result, dialogs>>

NextKinds == MapForward \/ MapBack \/ MapReverse

SpecKinds == InitKinds /\ [][NextKinds]_vars

\* the three parts of the statement about the kind tables
C14_RoundTripOnCatalogue ==
    pc \in {"back", "reversed"} /\ kt.kind \in Catalogue => kt.back = kt.kind

C14_UnknownKindForward ==
    pc # "kinds" /\ kt.kind \notin Catalogue => kt.forward = "LVGLContainerWidget"

C14_UnknownTypeBack ==
    pc = "reversed" /\ kt.eezType \notin CatalogueTypes => kt.reverse = "obj"

(***************************************************************************)
(* C14.  The kind tables are total and consistent: each of the 17 kinds of *)
(* the catalogue comes back from getWidgetTypeFromEEZ(mapWidgetType(lv_k)) *)
(* as itself, every source kind outside the catalogue maps forward to the  *)
(* container type, and every structured type outside the catalogue maps    *)
(* back to obj.                                                            *)
(***************************************************************************)
C14_KindTables ==
    /\ C14_RoundTripOnCatalogue
    /\ C14_UnknownKindForward
    /\ C14_UnknownTypeBack

(***************************************************************************)
(* Lines no recognizer matches                                             *)
(***************************************************************************)
\* /lv_obj_t\s*\*\s*(\w+)\s*=\s*NULL\s*;/ of extractGlobalVariables
globalVarMatch(s) ==
    /\ s.f = << >> /\ Len(s.args) = 6
    /\ s.args[1] = "lv_obj_t" /\ s.args[2] = "*" /\ IsWord(s.args[3])
    /\ s.args[4] = "=" /\ s.args[5] = "NULL" /\ s.args[6] = ";"

Recognized(s) ==
    \/ globalVarMatch(s) \/ createMatch(s)
    \/ textMatch(s) \/ sizeMatch(s) \/ valueMatch(s) \/ rangeMatch(s)
    \/ bgColorMatch(s) \/ textColorMatch(s) \/ fontMatch(s) \/ radiusMatch(s)
    \/ borderOpaMatch(s)
    \/ alignMatch(s) \/ centerMatch(s)

NoRecognizer(line) == \A k \in 1..Len(line) : ~Recognized(line[k])

\* the file ls without its line p
Without(ls, p) == [k \in 1..(Len(ls) - 1) |-> IF k < p THEN ls[k] ELSE ls[k + 1]]

\* the index a line of the file without line p has in the whole file
Reindex(n, p) == IF n >= p - 1 THEN n + 1 ELSE n

\* the widgets ws of the file without line p, their lines counted in the whole file
Reindexed(ws, p) ==
    [k \in 1..Len(ws) |->
        [ws[k] EXCEPT !.sourceLineStart = Reindex(@, p),
                      !.sourceLineEnd = Reindex(@, p)]]

(***************************************************************************)
(* C15.  A line that matches no recognizer changes nothing: with such a    *)
(* line at any place of a file, parse returns the widgets it returns for   *)
(* the file without the line (same records, kinds, parents, properties,    *)
(* styles, sizes, positions and children), no widget starts or ends on     *)
(* the line, and the parse comes to its end.                               *)
(***************************************************************************)
C15_UnrecognizedLineIsInert ==
    pc = "parsed" =>
        \A p \in 1..Len(lines) :
            NoRecognizer(lines[p]) =>
                /\ widgets = Reindexed(parse(Without(lines, p)), p)
                /\ \A k \in 1..Len(widgets) :
                      /\ widgets[k].sourceLineEnd # p - 1
                      /\ widgets[k].sourceLineStart # p - 1

C15_Witness ==
    /\ pc = "parsed"
    /\ Len(lines) = 3
    /\ NoRecognizer(lines[2])
    /\ Len(widgets) = 1
    /\ widgets[1].sourceLineStart = 0
    /\ widgets[1].sourceLineEnd = 2

(***************************************************************************)
(* The parent-child relation of a parse                                    *)
(***************************************************************************)
DistinctIdentifiers == \A id \in {"a", "b"} : Cardinality(CreationCallsFor(id)) <= 1

\* how often widget c stands in the children list of widget p
TimesChild(ws, p, c) ==
    Cardinality({j \in 1..Len(ws[p].children) : ws[p].children[j] = c})

\* the pairs <<parent identifier, child identifier>> of the children lists
ParentChild(ws) ==
    { <<ws[p].variableName, ws[c].variableName>> :
        <<p, c>> \in {q \in (1..Len(ws)) \X (1..Len(ws)) : TimesChild(ws, q[1], q[2]) > 0} }

\* the orders the lines of a file of n lines can be written in
LineOrders(n) == {f \in [1..n -> 1..n] : \A j, k \in 1..n : f[j] = f[k] => j = k}

Reordered(ls, f) == [k \in 1..Len(ls) |-> ls[f[k]]]

(***************************************************************************)
(* C17.  The tree shape does not depend on line order: in a file whose     *)
(* creation calls have pairwise distinct identifiers, every widget whose   *)
(* parent argument names a created widget is in that widget's children     *)
(* list exactly once, whether the parent is created before or after it,    *)
(* and every reordering of the lines gives the same parent-child relation. *)
(***************************************************************************)
C17_TreeShapeOrderFree ==
    (pc = "parsed" /\ DistinctIdentifiers) =>
        /\ \A c \in 1..Len(widgets) : \A p \in 1..Len(widgets) :
              TimesChild(widgets, p, c) =
                  IF widgets[c].parent = <<widgets[p].variableName>> THEN 1 ELSE 0
        /\ \A f \in LineOrders(Len(lines)) :
              ParentChild(parse(Reordered(lines, f))) = ParentChild(widgets)

C17_Witness ==
    /\ pc = "parsed"
    /\ DistinctIdentifiers
    /\ Len(widgets) = 2
    /\ widgets[1].parent = <<widgets[2].variableName>>
    /\ widgets[2].children = <<1>>
    /\ widgets[2].parent = NULL

(***************************************************************************)
(* Setter lines of one widget                                              *)
(***************************************************************************)
\* the fact a setter statement writes ("" for any other statement); align and
\* center both write the alignment
FactKey(s) ==
    CASE s.f = <<"set_value">> -> "value"
      [] s.f = <<"set_range">> -> "range"
      [] s.f = <<"align">> -> "align"
      [] s.f = <<"center">> -> "align"
      [] OTHER -> WrittenKey(s)

\* line is one setter statement whose subject is id
SetterLineFor(line, id) ==
    /\ Len(line) = 1
    /\ FactKey(line[1]) # ""
    /\ Recognized(line[1])
    /\ line[1].args[1] = id

\* the file creates one widget, on its first line
OneWidgetFile ==
    /\ CreatedId(lines[1]) # ""
    /\ \A n \in 2..Len(lines) : CreatedId(lines[n]) = ""

\* the file with its lines n and n + 1 exchanged
Swapped(ls, n) ==
    [k \in 1..Len(ls) |-> IF k = n THEN ls[n + 1] ELSE IF k = n + 1 THEN ls[n] ELSE ls[k]]

\* the file with its line n written twice
Doubled(ls, n) ==
    [k \in 1..(Len(ls) + 1) |-> IF k <= n THEN ls[k] ELSE ls[k - 1]]

\* the widgets without their sourceLineEnd
Settled(ws) == [k \in 1..Len(ws) |-> [ws[k] EXCEPT !.sourceLineEnd = 0]]

\* applying a setter line of the widget twice changes nothing but sourceLineEnd
Idempotent ==
    \A n \in 2..Len(lines) :
        SetterLineFor(lines[n], CreatedId(lines[1])) =>
            Settled(parse(Doubled(lines, n))) = Settled(widgets)

\* two setter lines of the widget that follow each other
TwoSetters(n) ==
    /\ SetterLineFor(lines[n], CreatedId(lines[1]))
    /\ SetterLineFor(lines[n + 1], CreatedId(lines[1]))

(***************************************************************************)
(* C18.  Property, style and layout facts are idempotent and               *)
(* order-independent: any two setter lines of the same created widget,     *)
(* applied in either order, and either of them applied twice, give the     *)
(* same properties, styles, size and position; only sourceLineEnd may      *)
(* differ.                                                                 *)
(***************************************************************************)
C18_IdempotentAndOrderFree ==
    (pc = "parsed" /\ OneWidgetFile) =>
        /\ Idempotent
        /\ \A n \in 2..(Len(lines) - 1) :
              TwoSetters(n) => Settled(parse(Swapped(lines, n))) = Settled(widgets)

\* C18 as the parser has it: every setter line is idempotent, and two setter
\* lines that write different facts of the widget can be exchanged; of two
\* lines that write the same fact the later one decides
C18_OrderFreeOnDifferentFacts ==
    (pc = "parsed" /\ OneWidgetFile) =>
        /\ Idempotent
        /\ \A n \in 2..(Len(lines) - 1) :
              (TwoSetters(n) /\ FactKey(lines[n][1]) # FactKey(lines[n + 1][1])) =>
                  Settled(parse(Swapped(lines, n))) = Settled(widgets)

C18_Witness ==
    /\ pc = "parsed"
    /\ OneWidgetFile
    /\ Len(lines) = 3
    /\ TwoSetters(2)
    /\ FactKey(lines[2][1]) = "bg_color"
    /\ FactKey(lines[3][1]) = "radius"
    /\ widgets[1].sourceLineEnd = 2

(***************************************************************************)
(* The lines a record comes from                                           *)
(***************************************************************************)
\* line m has a recognized setter statement whose subject is id
SetterOn(m, id) ==
    \E k \in 1..Len(lines[m]) :
        /\ Recognized(lines[m][k])
        /\ ~createMatch(lines[m][k]) /\ ~globalVarMatch(lines[m][k])
        /\ lines[m][k].args[1] = id

\* the lines that contribute to the record made by creation line n: the
\* creation line and the setter lines that name its identifier while the
\* identifier stands for this record
Contributing(n) ==
    {n} \cup {m \in n..Len(lines) :
                 /\ SetterOn(m, CreatedId(lines[n]))
                 /\ LastCreation(CreatedId(lines[n]), m) = n}

SourceLinesRight ==
    pc # "parse" =>
        /\ Len(widgets) = ObjIndex(Len(lines))
        /\ \A n \in 1..Len(lines) :
              CreatedId(lines[n]) # "" =>
                  /\ widgets[ObjIndex(n)].sourceLineStart = n - 1
                  /\ widgets[ObjIndex(n)].sourceLineEnd = Max(Contributing(n)) - 1
                  /\ widgets[ObjIndex(n)].sourceLineStart
                        <= widgets[ObjIndex(n)].sourceLineEnd

\* the records after the first j lines of the file
Scanned(j) == ScanFrom(ParserInit, SubSeq(lines, 1, j), 1).widgets

\* while the file is scanned: the records are those of the lines read so far,
\* and no record had a later end, or another start, after fewer lines
EndNeverDecreases ==
    pc = "parse" =>
        /\ widgets = Scanned(i)
        /\ \A j \in 0..i : \A k \in 1..Len(Scanned(j)) :
              /\ k <= Len(widgets)
              /\ Scanned(j)[k].sourceLineStart = widgets[k].sourceLineStart
              /\ Scanned(j)[k].sourceLineEnd <= widgets[k].sourceLineEnd

(***************************************************************************)
(* C19.  For every widget record parse returns, sourceLineStart is the     *)
(* index of the creation line that made it, sourceLineEnd is the greatest  *)
(* index among that line and the setter lines applied to the record, and   *)
(* sourceLineStart <= sourceLineEnd; while the file is scanned the         *)
(* sourceLineEnd of a record never decreases.                              *)
(***************************************************************************)
C19_SourceLines == SourceLinesRight /\ EndNeverDecreases

C19_Witness ==
    /\ pc = "parsed"
    /\ Len(lines) = 3
    /\ Len(widgets) = 2
    /\ Contributing(1) = {1, 3}
    /\ widgets[1].sourceLineEnd = 2
    /\ widgets[2].sourceLineStart = 1
    /\ widgets[2].sourceLineEnd = 1

(***************************************************************************)
(* exportToArduino on one screen with a nested widget tree                 *)
(***************************************************************************)
MaxChildren == 2

\* a label with a text and two local styles
StyledLabel ==
    [EezWidget("LVGLLabelWidget", "b", <<"hi">>, << >>) EXCEPT
        !.localStyles = <<[prop |-> "radius", value |-> <<"10">>],
                          [prop |-> "border_opa", value |-> <<"LV_OPA_0">>]>>]

\* a centered slider with a range and a value
CenteredSlider ==
    [EezWidget("LVGLSliderWidget", "c", UNDEFINED, << >>) EXCEPT
        !.leftUnit = "center", !.topUnit = "center",
        !.rangeMin = <<"0">>, !.rangeMax = <<"10">>, !.value = <<"5">>]

\* a container without identifier, aligned to the top left, holding a label
AlignedGroup ==
    [EezWidget("LVGLContainerWidget", "", UNDEFINED, <<StyledLabel>>) EXCEPT
        !.leftUnit = "left", !.topUnit = "top", !.left = <<"10">>, !.top = <<"20">>]

\* one root holding up to MaxChildren children
NestedTrees ==
    { EezWidget(type, id, UNDEFINED, kids) :
        type \in {"LVGLContainerWidget", "LVGLButtonWidget"},
        id \in {"a", ""},
        kids \in UNION {[1..n -> {StyledLabel, CenteredSlider, AlignedGroup}]
                        : n \in 0..MaxChildren} }

InitNested ==
    /\ pc = "project"
    /\ lines = << >>
    /\ i = 0
    /\ widgets = << >>
    /\ widgetMap = EmptyMap
    /\ mapKeys = << >>
    /\ project \in {<<[name |-> "main", widgets |-> <<t>>]>> : t \in NestedTrees}
    /\ runs = << >>
    /\ exportsLeft = 1
    /\ disk = EmptyMap
    /\ reparsed = << >>
    /\ scan = NoScan
    /\ AroundIdle

SpecNested == InitNested /\ [][ExportToArduino]_vars

(***************************************************************************)
(* The statements of a generated unit                                      *)
(***************************************************************************)
\* the place of a line in the order of a widget's statements
Rank(line) ==
    IF line = << >> THEN 5
    ELSE CASE line[1].f = <<"create">> /\ line[1].lhs # "" -> 0
           [] line[1].f = <<"set_size">> -> 1
           [] line[1].f \in {<<"set_pos">>, <<"align">>, <<"center">>} -> 2
           [] line[1].f \in {<<"set_text">>, <<"set_range">>, <<"set_value">>} -> 3
           [] Len(line[1].f) = 2 /\ line[1].f[1] = "set_style_" -> 4
           [] OTHER -> 6

\* the lines of code that create a widget, in ascending order
RECURSIVE CreationLines(_, _)
CreationLines(code, n) ==
    IF n > Len(code) THEN << >>
    ELSE (IF Rank(code[n]) = 0 THEN <<n>> ELSE << >>) \o CreationLines(code, n + 1)

\* the blank line that closes the statements of the widget created on line n
\* (0 when there is none)
BlankAfter(code, n) ==
    LET S == {m \in (n + 1)..Len(code) : code[m] = << >>}
    IN IF S = {} THEN 0 ELSE Min(S)

\* creation, size, position or alignment, properties, styles, blank line: all
\* for the identifier of the creation, none out of order, one position
OwnStatementsInOrder(code, n) ==
    LET e == BlankAfter(code, n) IN
    /\ e > n
    /\ \A m \in (n + 1)..(e - 1) :
          /\ Rank(code[m]) \in 1..4
          /\ Len(code[m]) = 1
          /\ code[m][1].args[1] = code[n][1].lhs
          /\ Rank(code[m - 1]) <= Rank(code[m])
    /\ Cardinality({m \in (n + 1)..(e - 1) : Rank(code[m]) = 2}) = 1
    /\ Cardinality({m \in (n + 1)..(e - 1) : Rank(code[m]) = 1}) <= 1

RECURSIVE PreOrder(_, _, _)
\* the widgets of a forest, parents first and children in document order, each
\* with the place its parent has in this order (0 for a top-level widget);
\* base: the number of widgets before the forest
PreOrder(ws, parentPlace, base) ==
    IF ws = << >> THEN << >>
    ELSE LET below == PreOrder(Head(ws).children, base + 1, base + 1) IN
         <<[widget |-> Head(ws), parentPlace |-> parentPlace]>>
         \o below
         \o PreOrder(Tail(ws), parentPlace, base + 1 + Len(below))

\* the implementation unit of the first screen in the last export
ScreenUnit == LastRun.files[2].code

(***************************************************************************)
(* C20.  In generated code the statements of a widget come in the order    *)
(* creation, size, position or alignment, property setters, style setters, *)
(* blank line, and only then its children in document order; a child's     *)
(* creation statement comes after its parent's and passes the parent's     *)
(* identifier as its parent argument, and a root's creation statement      *)
(* passes `parent`.                                                        *)
(***************************************************************************)
C20_StatementOrder ==
    (runs # << >> /\ LastRun.success) =>
        LET made == CreationLines(ScreenUnit, 1)
            want == PreOrder(project[1].widgets, 0, 0)
        IN /\ Len(made) = Len(want)
           /\ \A k \in 1..Len(made) :
                 /\ OwnStatementsInOrder(ScreenUnit, made[k])
                 /\ want[k].widget.identifier # "" =>
                       ScreenUnit[made[k]][1].lhs = want[k].widget.identifier
                 /\ ScreenUnit[made[k]][1].args =
                       <<IF want[k].parentPlace = 0 THEN "parent"
                         ELSE ScreenUnit[made[want[k].parentPlace]][1].lhs, ")">>
                 /\ want[k].parentPlace < k
                 /\ k < Len(made) => BlankAfter(ScreenUnit, made[k]) < made[k + 1]

C20_Witness ==
    /\ runs # << >> /\ LastRun.success
    /\ project[1].widgets[1].children = <<AlignedGroup, CenteredSlider>>
    /\ Len(CreationLines(ScreenUnit, 1)) = 4

(***************************************************************************)
(* The pipeline on a file that creates one widget and aligns it            *)
(***************************************************************************)
AlignKeywords ==
    {"LV_ALIGN_CENTER", "LV_ALIGN_TOP_LEFT", "LV_ALIGN_TOP_MID", "LV_ALIGN_TOP_RIGHT",
     "LV_ALIGN_LEFT_MID", "LV_ALIGN_RIGHT_MID", "LV_ALIGN_BOTTOM_LEFT",
     "LV_ALIGN_BOTTOM_MID", "LV_ALIGN_BOTTOM_RIGHT"}

\* integer offsets as they are written
Offsets == {<<"0">>, <<"10">>, <<"-", "35">>}

AlignAt(id, al, x, y) ==
    <<Call("obj", <<"align">>, <<id, ",", al, ",">> \o x \o <<",">> \o y \o <<")">>)>>

\* one widget: not positioned, centered, or aligned with a keyword and offsets
AlignFiles ==
    { <<Create("a", "obj", "parent")>>,
      <<Create("a", "obj", "parent"), Center("a")>> }
    \cup
    { <<Create("a", "obj", "parent"), AlignAt("a", al, x, y)>> :
        al \in AlignKeywords, x \in Offsets, y \in Offsets }

InitAlign ==
    /\ pc = "parse"
    /\ lines \in AlignFiles
    /\ i = 0
    /\ widgets = << >>
    /\ widgetMap = EmptyMap
    /\ mapKeys = << >>
    /\ project = NoProject
    /\ runs = << >>
    /\ exportsLeft = 1
    /\ disk = EmptyMap
    /\ reparsed = << >>
    /\ scan = NoScan
    /\ AroundIdle

SpecAlign == InitAlign /\ [][Next]_vars

\* the positioning statements the exported unit has for identifier id
PositionLines(id) ==
    {m \in 1..Len(ScreenUnit) :
        /\ Rank(ScreenUnit[m]) = 2
        /\ ScreenUnit[m][1].args[1] = id}

\* an anchor is recorded: the horizontal or the vertical unit is not px
AnchorRecorded(w) == w.leftUnit # "px" \/ w.topUnit # "px"

CenteredAtZero(w) ==
    /\ w.leftUnit = "center" /\ w.topUnit = "center"
    /\ w.left = <<"0">> /\ w.top = <<"0">>

(***************************************************************************)
(* C21.  generateWidget emits exactly one positioning statement per        *)
(* widget: lv_obj_center when the anchor is center/center and both offsets *)
(* are zero, lv_obj_align with the offsets whenever another anchor is      *)
(* recorded (horizontal or vertical unit different from px), and           *)
(* lv_obj_set_pos only when no anchor is recorded.                         *)
(***************************************************************************)
C21_OnePositioningStatement ==
    (runs # << >> /\ LastRun.success) =>
        LET w == project[1].widgets[1] IN
        /\ Cardinality(PositionLines(w.identifier)) = 1
        /\ \A m \in PositionLines(w.identifier) :
              LET s == ScreenUnit[m][1] IN
              /\ s.f = <<"center">> <=> CenteredAtZero(w)
              /\ s.f = <<"align">> <=> (AnchorRecorded(w) /\ ~CenteredAtZero(w))
              /\ s.f = <<"set_pos">> <=> ~AnchorRecorded(w)
              /\ s.f = <<"align">> =>
                    After(s.args, 4) = w.left \o <<",">> \o w.top \o <<")">>

(***************************************************************************)
(* C22.  The alignment mapping round-trips: a widget imported from         *)
(* lv_obj_align(w, K, x, y), for each of the nine alignment keywords K and *)
(* integer offsets x and y, is exported with an alignment statement that   *)
(* parses back to the keyword K and the offsets (x, y).                    *)
(***************************************************************************)
C22_AlignmentRoundTrip ==
    (pc = "done" /\ Len(lines) = 2 /\ lines[2][1].f = <<"align">>) =>
        /\ Len(reparsed) = 1
        /\ Len(reparsed[1]) = 1
        /\ MapHas(reparsed[1][1].properties, "align")
        /\ reparsed[1][1].properties["align"] = widgets[1].properties["align"]
        /\ reparsed[1][1].properties["align"] = <<lines[2][1].args[3]>>
        /\ reparsed[1][1].position = widgets[1].position

(***************************************************************************)
(* The facts a line yields, read off the records before and after it       *)
(***************************************************************************)
PropertyFacts == {"text", "size", "value", "range_min"}

StyleFacts == {"bg_color", "text_color", "text_font", "radius", "border_opa"}

\* what a record holds for a fact
Held(wd, fact) ==
    CASE fact = "size" -> <<wd.size>>
      [] fact \in PropertyFacts -> PropOr(wd, fact)
      [] fact = "layout" -> <<PropOr(wd, "align"), wd.position>>
      [] OTHER -> IF MapHas(wd.styles, fact) THEN wd.styles[fact] ELSE UNDEFINED

\* the facts of the set F that line n wrote: <<record, fact>> pairs whose value
\* after the line is not the value before it
Yielded(n, F) ==
    {q \in (1..Len(Scanned(n - 1))) \X F :
        Held(Scanned(n)[q[1]], q[2]) # Held(Scanned(n - 1)[q[1]], q[2])}

(***************************************************************************)
(* C23.  Each source line yields at most one fact per recognizer category: *)
(* at most one creation, at most one property fact (text, size, value or   *)
(* range), at most one style fact and at most one layout fact (align or    *)
(* center); facts of different categories may come from the same line.     *)
(***************************************************************************)
C23_OneFactPerCategory ==
    pc = "parsed" =>
        \A n \in 1..Len(lines) :
            /\ Len(Scanned(n)) - Len(Scanned(n - 1)) <= 1
            /\ Cardinality(Yielded(n, PropertyFacts)) <= 1
            /\ Cardinality(Yielded(n, StyleFacts)) <= 1
            /\ Cardinality(Yielded(n, {"layout"})) <= 1

(***************************************************************************)
(* C24.  The argument text `parent` is the external-root sentinel by       *)
(* string comparison: every widget whose creation call passes `parent`     *)
(* gets parent null and is a root, also when the file creates a widget     *)
(* whose identifier is `parent`; a widget with identifier `parent` never   *)
(* receives children from the hierarchy builder.                           *)
(***************************************************************************)
\* line n creates a widget and passes `parent`
PassesParent(n) ==
    /\ CreatedId(lines[n]) # ""
    /\ \E k \in 1..Len(lines[n]) :
          /\ IsCreationCall(lines[n][k])
          /\ \A j \in 1..(k - 1) : ~IsCreationCall(lines[n][j])
          /\ lines[n][k].args = <<"parent", ")">>

C24_ParentIsSentinel ==
    pc = "parsed" =>
        /\ \A n \in 1..Len(lines) :
              PassesParent(n) =>
                  /\ widgets[ObjIndex(n)].parent = NULL
                  /\ \A p \in 1..Len(widgets) : TimesChild(widgets, p, ObjIndex(n)) = 0
                  /\ \E r \in 1..Len(TopLevel(widgets, 1)) :
                        TopLevel(widgets, 1)[r] = ObjIndex(n)
        /\ \A k \in 1..Len(widgets) :
              widgets[k].variableName = "parent" => widgets[k].children = << >>

C24_Witness ==
    /\ pc = "parsed"
    /\ Len(widgets) = 2
    /\ widgets[1].variableName = "parent"
    /\ widgets[2].variableName = "b"
    /\ PassesParent(2)
    /\ widgets[2].parent = NULL

(***************************************************************************)
(* The links of a parse as a graph                                         *)
(***************************************************************************)
\* the records that have widget c in their children list
Owners(ws, c) == {p \in 1..Len(ws) : TimesChild(ws, p, c) > 0}

\* the records reached from the set S over at most n links down
RECURSIVE Reach(_, _, _)
Reach(ws, S, n) ==
    IF n = 0 THEN S
    ELSE Reach(ws, S \cup {c \in 1..Len(ws) : Owners(ws, c) \cap S # {}}, n - 1)

\* widget k is below itself
OwnAncestor(ws, k) ==
    k \in Reach(ws, {c \in 1..Len(ws) : k \in Owners(ws, c)}, Len(ws))

\* the records no other record links to
Roots(ws) == {k \in 1..Len(ws) : Owners(ws, k) = {}}

(***************************************************************************)
(* C25.  After parse of any file the parent-child links form a forest:     *)
(* every widget record is in at most one children list and at most once in *)
(* it, no widget is its own ancestor (no self-parent, no cycle), and every *)
(* widget is reachable from exactly one root.                              *)
(***************************************************************************)
C25_LinksFormForest ==
    pc = "parsed" =>
        \A k \in 1..Len(widgets) :
            /\ Cardinality(Owners(widgets, k)) <= 1
            /\ \A p \in Owners(widgets, k) : TimesChild(widgets, p, k) = 1
            /\ ~OwnAncestor(widgets, k)
            /\ Cardinality({r \in Roots(widgets) :
                               k \in Reach(widgets, {r}, Len(widgets))}) = 1

(***************************************************************************)
(* C26.  createProjectFromArduino terminates for every parsed file, also   *)
(* when creation calls name each other as parents in a cycle or name       *)
(* themselves: convertWidget starts only from widgets with parent null,    *)
(* and no widget on a parent cycle is reachable from such a widget.        *)
(***************************************************************************)
NullParents == {k \in 1..Len(widgets) : widgets[k].parent = NULL}

\* the records convertWidget visits
Converted == Reach(widgets, NullParents, Len(widgets))

OnCycle == {k \in 1..Len(widgets) : OwnAncestor(widgets, k)}

C26_ConversionTerminates ==
    /\ pc # "parse" => Converted \cap OnCycle = {}
    /\ pc = "parsed" =>
          TreeSize(createProjectFromArduino(
                       <<[fileName |-> SrcFile, widgets |-> widgets]>>)[1].widgets)
              = Cardinality(Converted)
    /\ pc = "project" => TreeSize(project[1].widgets) = Cardinality(Converted)
    /\ pc = "nothing" => widgets = << >>

C26_Witness ==
    /\ pc = "project"
    /\ OnCycle # {}
    /\ Cardinality(OnCycle) = 2
    /\ TreeSize(project[1].widgets) = 1

(***************************************************************************)
(* C27.  Setter lines are applied only to a record that exists when the    *)
(* line is scanned: a property, style or layout line for identifier X      *)
(* before the first creation line of X changes no widget; and when X is    *)
(* created a second time, the setters seen between the two creations stay  *)
(* on the first record, and the record registered under X, which is the    *)
(* one linked to its parent and given the later setters, starts again with *)
(* empty properties and styles, size auto and position (0,0).              *)
(***************************************************************************)
\* line n holds setters only, all of them for identifiers not created so far
SettersAhead(n) ==
    /\ CreatedId(lines[n]) = ""
    /\ \E id \in {"a", "b", "parent"} : SetterOn(n, id)
    /\ \A id \in {"a", "b", "parent"} : SetterOn(n, id) => LastCreation(id, n) = 0

\* lines n < m are two creations of one identifier that follow each other
CreatedAgain(n, m) ==
    /\ n < m
    /\ CreatedId(lines[n]) # ""
    /\ CreatedId(lines[m]) = CreatedId(lines[n])
    /\ LastCreation(CreatedId(lines[n]), m - 1) = n
    /\ Len(lines[m]) = 1

StartsAgain(wd) ==
    /\ wd.properties = EmptyMap
    /\ wd.styles = EmptyMap
    /\ wd.size = [width |-> Str(<<"auto">>), height |-> Str(<<"auto">>)]
    /\ wd.position = [x |-> <<"0">>, y |-> <<"0">>]

C27_SettersNeedARecord ==
    pc = "parsed" =>
        /\ \A n \in 1..Len(lines) : SettersAhead(n) => Scanned(n) = Scanned(n - 1)
        /\ \A n \in 1..Len(lines) : \A m \in 1..Len(lines) :
              CreatedAgain(n, m) =>
                  /\ StartsAgain(Scanned(m)[ObjIndex(m)])
                  /\ widgets[ObjIndex(n)] = Scanned(m - 1)[ObjIndex(n)]
                  /\ \A p \in 1..Len(widgets) : TimesChild(widgets, p, ObjIndex(n)) = 0
                  /\ \A j \in (m + 1)..Len(lines) :
                        (SetterOn(j, CreatedId(lines[m]))
                         /\ LastCreation(CreatedId(lines[m]), j) = m) =>
                            widgets[ObjIndex(m)].sourceLineEnd >= j - 1

C27_Witness ==
    /\ pc = "parsed"
    /\ Len(lines) = 3
    /\ CreatedAgain(1, 3)
    /\ SetterOn(2, CreatedId(lines[1]))
    /\ MapHas(widgets[1].properties, "text")
    /\ StartsAgain(widgets[2])

(***************************************************************************)
(* The export dialog: ArduinoExportDialogStore and the buttons of          *)
(* ArduinoExportDialogComponent.  A handler runs to its next await in one  *)
(* step; what it awaits is delivered in a later step, and clicks may fall  *)
(* in between.  An error is null (<< >>) or a one-element text holding the *)
(* message.                                                                *)
(***************************************************************************)
MaxClicks == 2

\* ArduinoExportDialogStore.state as constructed
ExportState ==
    [outputPath |-> "", exporting |-> FALSE, error |-> NULL, filesGenerated |-> 0,
     success |-> FALSE]

NoExportTasks ==
    [picking |-> 0, browsed |-> 0, running |-> << >>, ended |-> 0, failed |-> 0,
     succeeded |-> FALSE, timers |-> 0]

\* a faulty variant of the first runInAction of exportProject: the error of
\* the run before stays (C28 must tell it from the real one)
exportProjectStart_KeepsError(st) ==
    [st EXCEPT !.exporting = TRUE, !.success = FALSE]

\* the first runInAction of exportProject
exportProjectStart(st) ==
    [st EXCEPT !.exporting = TRUE, !.error = NULL, !.success = FALSE]

\* the runInAction exportProject ends with: out.threw when objectToJson or
\* JSON.parse threw, otherwise out.result is what exportToArduino returned
exportProjectEnd(st, out) ==
    IF out.threw
    THEN [st EXCEPT !.error = out.message, !.exporting = FALSE]
    ELSE IF ~out.result.success
    THEN [st EXCEPT !.error = IF out.result.error \in {<< >>, <<"">>}
                               THEN <<"Unknown error">> ELSE out.result.error,
                    !.exporting = FALSE]
    ELSE [st EXCEPT !.filesGenerated = Len(out.result.files),
                    !.success = TRUE,
                    !.exporting = FALSE]

\* the Export button is not disabled
ExportEnabled(st) == ~(st.outputPath = "" \/ st.exporting \/ st.success)

\* the projects the dialog is opened on
DialogProjects == {p \in PageProjects : Len(p) <= 1}

InitExportDialog ==
    /\ pc = "dialog"
    /\ lines = << >>
    /\ i = 0
    /\ widgets = << >>
    /\ widgetMap = EmptyMap
    /\ mapKeys = << >>
    /\ project \in DialogProjects
    /\ runs = << >>
    /\ exportsLeft = MaxClicks
    /\ disk = EmptyMap
    /\ reparsed = << >>
    /\ scan = NoScan
    /\ batch = NoBatch /\ dir = NoDir /\ info = NoInfo /\ result = NoResult
    /\ kt = NoKinds
    /\ state = ExportState
    /\ tasks = NoExportTasks

\* a click on Browse: the handler awaits showOpenDialog
ExportBrowse ==
    /\ pc = "dialog"
    /\ ~state.exporting
    /\ tasks.browsed < MaxClicks
    /\ tasks' = [tasks EXCEPT !.picking = @ + 1, !.browsed = @ + 1]
    /\ UNCHANGED <<pipeline, batch, dir, info, result, kt, state>>

\* showOpenDialog resolves: with no path when cancelled
ExportBrowseReturn ==
    /\ tasks.picking > 0
    /\ \E filePaths \in {<< >>, <<"sketch">>, <<"build">>} :
          state' = IF filePaths # << >> THEN [state EXCEPT !.outputPath = filePaths[1]]
                   ELSE state
    /\ tasks' = [tasks EXCEPT !.picking = @ - 1]
    /\ UNCHANGED <<pipeline, batch, dir, info, result, kt>>

\* a click on Export: exportProject up to its await.  exportToArduino has no
\* await of its own, so it has written its files when exportProject waits
ExportClick ==
    /\ pc = "dialog"
    /\ ExportEnabled(state)
    /\ exportsLeft > 0
    /\ state' = exportProjectStart(state)
    /\ \/ /\ \E message \in {<<"Converting circular structure to JSON">>, <<"">>} :
               tasks' = [tasks EXCEPT !.running =
                            Append(@, [at |-> state, threw |-> TRUE, message |-> message,
                                       result |-> ExportResult(<< >>, 1)])]
          /\ UNCHANGED <<runs, disk>>
       \/ \E rnd \in [1..PagesMissing(project) -> RandomNames] :
            LET files == GeneratedFiles(project, rnd) IN
            \E failAt \in 0..Len(files) :
               /\ runs' = Append(runs, ExportResult(files, failAt))
               /\ disk' = WriteFiles(disk, files,
                                     IF failAt = 0 THEN Len(files) ELSE failAt - 1)
               /\ tasks' = [tasks EXCEPT !.running =
                               Append(@, [at |-> state, threw |-> FALSE, message |-> << >>,
                                          result |-> ExportResult(files, failAt)])]
    /\ exportsLeft' = exportsLeft - 1
    /\ UNCHANGED <<pc, lines, i, widgets, widgetMap, mapKeys, project, reparsed, scan>>
    /\ UNCHANGED <<batch, dir, info, result, kt>>

\* exportProject after its await; on success the click handler arms the timer
\* that closes the dialog
ExportReturn ==
    /\ tasks.running # << >>
    /\ state' = exportProjectEnd(state, Head(tasks.running))
    /\ tasks' = [tasks EXCEPT !.running = Tail(@),
                              !.ended = @ + 1,
                              !.failed = IF state'.success THEN @ ELSE @ + 1,
                              !.succeeded = @ \/ state'.success,
                              !.timers = IF state'.success THEN @ + 1 ELSE @]
    /\ UNCHANGED <<pipeline, batch, dir, info, result, kt>>

\* a click on Cancel (Close after a success)
ExportClose ==
    /\ pc = "dialog"
    /\ ~state.exporting
    /\ pc' = "closed"
    /\ UNCHANGED <<lines, i, widgets, widgetMap, mapKeys, project, runs, exportsLeft,
                   disk, reparsed, scan, around>>

\* the timer armed after a success calls onClose
ExportTimer ==
    /\ tasks.timers > 0
    /\ tasks' = [tasks EXCEPT !.timers = @ - 1]
    /\ pc' = "closed"
    /\ UNCHANGED <<lines, i, widgets, widgetMap, mapKeys, project, runs, exportsLeft,
                   disk, reparsed, scan, batch, dir, info, result, kt, state>>

NextExportDialog ==
    \/ ExportBrowse
    \/ ExportBrowseReturn
    \/ ExportClick
    \/ ExportReturn
    \/ ExportClose
    \/ ExportTimer

SpecExportDialog == InitExportDialog /\ [][NextExportDialog]_vars

(***************************************************************************)
(* C28.  In every reachable state of the export dialog store, success and  *)
(* a non-null error are never both set, and exporting implies no success   *)
(* and a null error; every run of exportProject ends with exporting false  *)
(* and exactly one of success or a non-null error; the Export action is    *)
(* enabled only while outputPath is non-empty, exporting is false and      *)
(* success is false, so after one successful export no run of the dialog   *)
(* starts again.                                                           *)
(***************************************************************************)
C28_ExportDialogState ==
    /\ ~(state.success /\ state.error # NULL)
    /\ state.exporting => ~state.success /\ state.error = NULL
    /\ state.exporting <=> tasks.running # << >>
    /\ Len(tasks.running) <= 1
    /\ (tasks.ended > 0 /\ tasks.running = << >>) =>
          /\ ~state.exporting
          /\ state.success <=> state.error = NULL
    /\ \A k \in 1..Len(tasks.running) :
          LET at == tasks.running[k].at IN
          at.outputPath # "" /\ ~at.exporting /\ ~at.success
    /\ tasks.succeeded =>
          /\ state.success
          /\ tasks.running = << >>
          /\ ~ExportEnabled(state)

C28_Witness ==
    /\ tasks.succeeded
    /\ tasks.failed = 1
    /\ tasks.ended = 2
    /\ state.success
    /\ state.filesGenerated = 2
    /\ state.outputPath = "build"
    /\ exportsLeft = 0

(***************************************************************************)
(* The import dialog: ArduinoImportDialogStore and the buttons of          *)
(* ArduinoImportDialogComponent, modelled as the export dialog is.         *)
(* scanProject has no await: once started it runs to its end before any   *)
(* other handler runs.                                                     *)
(***************************************************************************)
\* ArduinoImportDialogStore.state as constructed
ImportState ==
    [projectPath |-> "", scanning |-> FALSE, importing |-> FALSE, filesFound |-> 0,
     lvglFilesFound |-> 0, error |-> NULL, scanComplete |-> FALSE]

NoImportTasks ==
    [picking |-> 0, browsed |-> 0, scanPath |-> << >>, running |-> << >>, clicked |-> 0,
     ended |-> 0]

SourceEntry(base, ext, readFails, line) ==
    [name |-> [base |-> base, ext |-> ext], statFails |-> FALSE, readFails |-> readFails,
     content |-> Text(<<line>>)]

\* the folders the user can choose: a sketch, a sketch that only declares its
\* widgets, a folder of headers, a folder of notes, a sketch that cannot be read
Folders ==
    [ sketch |-> [readable |-> TRUE,
                  entries |-> <<SourceEntry("main", ".cpp", FALSE,
                                            Create("a", "obj", "parent"))>>],
      declared |-> [readable |-> TRUE,
                    entries |-> <<SourceEntry("main", ".cpp", FALSE, Declared("a"))>>],
      headers |-> [readable |-> TRUE,
                   entries |-> <<SourceEntry("ui", ".h", FALSE, Declared("a"))>>],
      notes |-> [readable |-> TRUE,
                 entries |-> <<SourceEntry("notes", ".txt", FALSE, Declared("a"))>>],
      locked |-> [readable |-> TRUE,
                  entries |-> <<SourceEntry("main", ".cpp", TRUE,
                                            Create("a", "obj", "parent"))>>] ]

RECURSIVE ScanAll(_, _)
\* the loop of scanDir over the first n entries of directory d
ScanAll(d, n) ==
    IF n = 0 THEN NoInfo
    ELSE LET before == ScanAll(d, n - 1) IN
         IF before.aborted THEN before
         ELSE [ScanStep(before, d.entries[n], n) EXCEPT !.k = n]

\* scanArduinoProject: the catch of scanDir keeps every error inside
scanArduinoProject(d) == IF d.readable THEN ScanAll(d, Len(d.entries)) ELSE NoInfo

importArduinoLVGLProject(d) == ImportResult(scanArduinoProject(d), d.entries)

\* the first runInAction of scanProject
scanProjectStart(st, projectPath) ==
    [st EXCEPT !.projectPath = projectPath, !.scanning = TRUE, !.error = NULL]

\* the runInAction scanProject ends with
scanProjectEnd(st, projectInfo) ==
    [st EXCEPT !.filesFound = Len(projectInfo.files),
               !.lvglFilesFound = Len(projectInfo.mainFiles),
               !.scanComplete = TRUE,
               !.scanning = FALSE,
               !.error = IF ~projectInfo.hasLVGL
                         THEN <<"No LVGL code found in the project.">> ELSE @]

\* the first runInAction of importProject
importProjectStart(st) == [st EXCEPT !.importing = TRUE, !.error = NULL]

\* importProject returns null after a failed import, or from its catch
importProjectFail(st, error) ==
    [st EXCEPT !.error = IF error \in {<< >>, <<"">>} THEN <<"Unknown error">> ELSE error,
               !.importing = FALSE]

\* importProject returns after a cancelled save dialog, or with the file written
importProjectDone(st) == [st EXCEPT !.importing = FALSE]

\* the Import button is not disabled
ImportEnabled(st) ==
    ~(~st.scanComplete \/ st.error \notin {<< >>, <<"">>} \/ st.importing
      \/ st.lvglFilesFound = 0)

\* the Browse button is not disabled
BrowseEnabled(st) == ~(st.scanning \/ st.importing)

\* no handler is in the middle of a synchronous stretch
Yielding == tasks.scanPath = << >>

\* showArduinoImportDialog, with or without an initial path
InitImportDialog ==
    /\ pc = "dialog"
    /\ PipelineIdle
    /\ batch = NoBatch /\ dir = NoDir /\ info = NoInfo /\ result = NoResult
    /\ kt = NoKinds
    /\ \/ state = ImportState /\ tasks = NoImportTasks
       \/ \E initialPath \in DOMAIN Folders :
            /\ state = scanProjectStart(ImportState, initialPath)
            /\ tasks = [NoImportTasks EXCEPT !.scanPath = <<initialPath>>]

\* the try of scanProject
ScanProject ==
    /\ tasks.scanPath # << >>
    /\ state' = scanProjectEnd(state, scanArduinoProject(Folders[tasks.scanPath[1]]))
    /\ tasks' = [tasks EXCEPT !.scanPath = << >>]
    /\ UNCHANGED <<pipeline, batch, dir, info, result, kt>>

\* a click on Browse: the handler awaits showOpenDialog
ImportBrowse ==
    /\ pc = "dialog"
    /\ Yielding
    /\ BrowseEnabled(state)
    /\ tasks.browsed < MaxClicks
    /\ tasks' = [tasks EXCEPT !.picking = @ + 1, !.browsed = @ + 1]
    /\ UNCHANGED <<pipeline, batch, dir, info, result, kt, state>>

\* showOpenDialog resolves; with a path the handler calls scanProject
ImportBrowseReturn ==
    /\ Yielding
    /\ tasks.picking > 0
    /\ \/ /\ tasks' = [tasks EXCEPT !.picking = @ - 1]
          /\ UNCHANGED state
       \/ \E projectPath \in DOMAIN Folders :
            /\ state' = scanProjectStart(state, projectPath)
            /\ tasks' = [tasks EXCEPT !.picking = @ - 1, !.scanPath = <<projectPath>>]
    /\ UNCHANGED <<pipeline, batch, dir, info, result, kt>>

\* a click on Import: importProject up to its first await.
\* importArduinoLVGLProject has no await of its own
ImportClick ==
    /\ pc = "dialog"
    /\ Yielding
    /\ ImportEnabled(state)
    /\ tasks.clicked < MaxClicks
    /\ state' = importProjectStart(state)
    /\ tasks' = [tasks EXCEPT
                    !.clicked = @ + 1,
                    !.running = Append(@, [at |-> state, stage |-> "importer",
                                           projectName |-> "",
                                           result |-> importArduinoLVGLProject(
                                                          Folders[state.projectPath])])]
    /\ UNCHANGED <<pipeline, batch, dir, info, result, kt>>

\* importProject after the importer: it returns on a failure, and otherwise
\* awaits showSaveDialog with the name of the folder as the default
ImporterReturn ==
    /\ Yielding
    /\ tasks.running # << >>
    /\ Head(tasks.running).stage = "importer"
    /\ IF ~Head(tasks.running).result.success
       THEN /\ state' = importProjectFail(state, <<Head(tasks.running).result.error>>)
            /\ tasks' = [tasks EXCEPT !.running = Tail(@), !.ended = @ + 1]
       ELSE /\ tasks' = [tasks EXCEPT !.running[1].stage = "saving",
                                      !.running[1].projectName = state.projectPath]
            /\ UNCHANGED state
    /\ UNCHANGED <<pipeline, batch, dir, info, result, kt>>

\* showSaveDialog resolves: cancelled, or with a path that writeFileSync
\* writes or fails to write; after a write the click handler closes the dialog
SaveReturn ==
    /\ Yielding
    /\ tasks.running # << >>
    /\ Head(tasks.running).stage = "saving"
    /\ tasks' = [tasks EXCEPT !.running = Tail(@), !.ended = @ + 1]
    /\ \/ /\ state' = importProjectDone(state)
          /\ UNCHANGED <<pc, project>>
       \/ /\ state' = importProjectFail(state, <<"EACCES: permission denied, open">>)
          /\ UNCHANGED <<pc, project>>
       \/ /\ state' = importProjectDone(state)
          /\ project' = Head(tasks.running).result.project
          /\ pc' = "closed"
    /\ UNCHANGED <<lines, i, widgets, widgetMap, mapKeys, runs, exportsLeft, disk, reparsed,
                   scan, batch, dir, info, result, kt>>

\* a click on Cancel
ImportCancel ==
    /\ pc = "dialog"
    /\ Yielding
    /\ ~state.importing
    /\ pc' = "closed"
    /\ UNCHANGED <<lines, i, widgets, widgetMap, mapKeys, project, runs, exportsLeft,
                   disk, reparsed, scan, around>>

NextImportDialog ==
    \/ ScanProject
    \/ ImportBrowse
    \/ ImportBrowseReturn
    \/ ImportClick
    \/ ImporterReturn
    \/ SaveReturn
    \/ ImportCancel

SpecImportDialog == InitImportDialog /\ [][NextImportDialog]_vars

\* the parts of the statement about the import dialog
C29_OneImportInFlight == Len(tasks.running) <= 1

C29_NoScanDuringImport == ~(state.scanning /\ tasks.running # << >>)

C29_StartsAfterGoodScan ==
    \A k \in 1..Len(tasks.running) :
        LET at == tasks.running[k].at IN
        /\ at.scanComplete /\ ~at.scanning
        /\ at.error = NULL
        /\ at.lvglFilesFound > 0

C29_ExitsClearImporting == state.importing <=> tasks.running # << >>

ScreenEntries ==
    [ name : {[base |-> "main", ext |-> ".cpp"], [base |-> "main", ext |-> ".ino"],
              [base |-> "menu", ext |-> ".cpp"]},
      statFails : {FALSE}, readFails : {FALSE},
      content : {Text(<<Create("a", "obj", "parent")>>),
                 Text(<<Create("a", "obj", "parent"), Create("b", "label", "a")>>)} ]

InitScreens ==
    /\ pc = "scan"
    /\ PipelineIdle
    /\ batch = NoBatch
    /\ dir \in [readable : {TRUE},
                entries : UNION {[1..n -> ScreenEntries] : n \in 0..MaxEntries}]
    /\ \A a, b \in 1..Len(dir.entries) :
          dir.entries[a].name = dir.entries[b].name => a = b
    /\ info = NoInfo
    /\ result = NoResult
    /\ kt = NoKinds
    /\ state = NoDialog /\ tasks = NoDialog

SpecScreens == InitScreens /\ [][NextImport]_vars

\* pages j < k of the project have the same name
SameName(j, k) == j < k /\ project[j].name = project[k].name

\* the last page that has the name of page k
LastNamed(k) == Max({j \in 1..Len(project) : project[j].name = project[k].name})

(***************************************************************************)
(* C30.  Screen names are not made unique: createProjectFromArduino names  *)
(* each page by the base name of its source file without the extension, so *)
(* two parsed files with the same base name give two pages with the same   *)
(* name; exportToArduino then reports two definitions files with the same  *)
(* fileName and writes them in page order to the same path, so only the    *)
(* later page's code remains on disk while the result still lists n+1      *)
(* files, and ui.h carries the same creation-function signature twice.     *)
(***************************************************************************)
C30_ScreenNamesNotUnique ==
    /\ result.success =>
          /\ Len(project) = Len(info.mainFiles)
          /\ \A k \in 1..Len(project) :
                project[k].name = dir.entries[info.mainFiles[k]].name.base
    /\ (runs # << >> /\ LastRun.success) =>
          /\ Len(LastRun.files) = Len(project) + 1
          /\ \A k \in 1..Len(project) :
                /\ LastRun.files[k + 1].fileName = <<project[k].name, ".cpp">>
                /\ disk[<<project[k].name, ".cpp">>] = LastRun.files[LastNamed(k) + 1].code
          /\ \A j, k \in 1..Len(project) :
                SameName(j, k) =>
                   /\ LastRun.files[j + 1].fileName = LastRun.files[k + 1].fileName
                   /\ LET code == disk[<<"ui.h">>]
                          first == Len(code) - Len(project)
                      IN code[first + j] = code[first + k]
                         /\ code[first + j] = PrototypeLines(project)[j]

C30_Witness ==
    /\ runs # << >> /\ LastRun.success
    /\ Len(project) = 2
    /\ SameName(1, 2)
    /\ dir.entries[1].name # dir.entries[2].name
    /\ Len(LastRun.files) = 3
    /\ Cardinality(DOMAIN disk) = 2
    /\ LastRun.files[2].code # LastRun.files[3].code
    /\ disk[<<"main", ".cpp">>] = LastRun.files[3].code

====
